---- MODULE Spec2Model ----
(***************************************************************************)
(* The sequence packer of experiments/lib/pack.py                          *)
(* (packed_tensors_from_tokenized_results) together with                   *)
(* TokenizedResult.without_prompt of experiments/lib/tokenize.py.          *)
(*                                                                         *)
(* One behaviour is one call of the packer: Init fixes the arguments       *)
(* seq_len and truncate_long_results, every step of the for loop consumes  *)
(* one TokenizedResult, and Return pads, normalises and returns.           *)
(*                                                                         *)
(* The other parts of the pipeline have a specification each, over         *)
(* variables of their own, and stay idle in the specification of the       *)
(* packer: the grouping step TaskResultTokenizer.__call__ (GroupingSpec),  *)
(* the storage adapter packed_tensors_to_dir, packed_tensors_from_dir and  *)
(* PackedDataset (StorageSpec), and the loop of TuneRecipe.train           *)
(* (TrainSpec).                                                            *)
(*                                                                         *)
(* Conventions                                                             *)
(*   - Python lists are sequences; Python index i is index i + 1 here.     *)
(*   - floats that the packer only copies (advantage, logprob) are         *)
(*     integers; float("nan") is the value NaN and a missing logprob       *)
(*     (None) is the value NoLogprob, both outside the range of the        *)
(*     logprob values of the inputs (logprobs are <= 0).                   *)
(*   - weights are exact rationals <<numerator, denominator>> in lowest    *)
(*     terms, so that 1 / sum(mask) and the division by the mean are       *)
(*     computed, not assumed.                                              *)
(*   - random.randint(-(2**63), 2**63 - 1) is a generator of ids that      *)
(*     collide neither with one another nor with a prompt id: the k-th     *)
(*     draw of a call returns FirstGroupId + k.                            *)
(***************************************************************************)
EXTENDS Integers, Sequences, FiniteSets, TLC

\* ------------------------------------------------------------------ bounds

\* The two row widths (seq_len) the packer is called with.
SmallSeqLen == 5
LargeSeqLen == 10
\* By how much the long results exceed a row width.
LongExcess == 5
\* The number of results one call consumes at most.
MaxResults == 3
\* The first id the id generator returns.
FirstGroupId == 100
\* The number of completions of one task at most.
MaxSiblings == 3
\* The largest num_sequences and sequence_length of stored tensors.
MaxSequences == 2
MaxLength == 3
\* The largest cfg.epochs, len(dataloader), gradient_accumulation_steps
\* and max_steps_per_epoch of a training run.
MaxEpochs == 2
MaxBatches == 3
MaxAccumulation == 2
MaxStepsLimit == 2

\* --------------------------------------------------------------- constants

\* pad_token_id's default
PadTokenId == -100
\* the padding of group_ids and parent_ids
PadId == -1
\* float("nan")
NaN == 99
\* a ChatCompletionTokenLogprob whose logprob is None
NoLogprob == 98

SeqLens == {SmallSeqLen, LargeSeqLen}

\* ----------------------------------------------------------------- helpers

Range(s) == {s[i] : i \in DOMAIN s}

Last(s) == s[Len(s)]

\* A function on 1..n as the list of its values.
AsList(f) == SubSeq(f, 1, Len(f))

Repeat(v, n) == AsList([i \in 1..(IF n > 0 THEN n ELSE 0) |-> v])

Max(a, b) == IF a >= b THEN a ELSE b

Min(a, b) == IF a <= b THEN a ELSE b

\* Python s[i:] for any integer i (a negative i counts from the end).
PySliceFrom(s, i) ==
    LET start == IF i < 0 THEN Max(Len(s) + i, 0) ELSE Min(i, Len(s))
    IN  SubSeq(s, start + 1, Len(s))

\* Python s[:n] for n >= 0.
PySliceTo(s, n) == SubSeq(s, 1, Min(n, Len(s)))

RECURSIVE SumSeq(_)
SumSeq(s) == IF s = <<>> THEN 0 ELSE s[1] + SumSeq(Tail(s))

RECURSIVE Flatten(_)
Flatten(ss) == IF ss = <<>> THEN <<>> ELSE ss[1] \o Flatten(Tail(ss))

\* ---------------------------------------------------------------- rationals

RECURSIVE GCD(_, _)
GCD(a, b) == IF b = 0 THEN a ELSE GCD(b, a % b)

Abs(a) == IF a < 0 THEN -a ELSE a

\* n / d in lowest terms with a positive denominator (d # 0).
Rat(n, d) ==
    LET g == GCD(Abs(n), Abs(d))
        s == IF d < 0 THEN -1 ELSE 1
    IN  <<(s * n) \div g, (s * d) \div g>>

RatZero == <<0, 1>>

RatAdd(p, q) == Rat(p[1] * q[2] + q[1] * p[2], p[2] * q[2])

RatDiv(p, q) == Rat(p[1] * q[2], p[2] * q[1])

\* The sum of a list of rationals. The sum is exact, so its value does not
\* depend on the order of the additions: the list is summed by halves.
RECURSIVE RatSum(_)
RatSum(s) ==
    IF s = <<>> THEN RatZero
    ELSE IF Len(s) = 1 THEN s[1]
    ELSE LET half == Len(s) \div 2
         IN  RatAdd(RatSum(SubSeq(s, 1, half)),
                    RatSum(SubSeq(s, half + 1, Len(s))))

\* ------------------------------------------------------- TokenizedResult

\* without_prompt with prompt_length=self.prompt_length for prompt_length=0.
without_prompt_keeping_length(self) ==
    LET mask == PySliceFrom(self.assistant_mask, self.prompt_length)
    IN  [self EXCEPT
            !.token_ids = PySliceFrom(self.token_ids, self.prompt_length),
            !.input_pos = PySliceFrom(self.input_pos, self.prompt_length),
            !.assistant_mask = mask,
            !.token_logprobs =
                IF self.has_logprobs
                THEN PySliceFrom(self.token_logprobs,
                                 Len(self.token_logprobs) - SumSeq(mask))
                ELSE <<>>]

\* TokenizedResult.without_prompt: the result with its first prompt_length
\* tokens removed, its token_logprobs cut to the last sum(assistant_mask)
\* entries, and prompt_length 0.
without_prompt(self) ==
    LET mask == PySliceFrom(self.assistant_mask, self.prompt_length)
    IN  [self EXCEPT
            !.token_ids = PySliceFrom(self.token_ids, self.prompt_length),
            !.input_pos = PySliceFrom(self.input_pos, self.prompt_length),
            !.assistant_mask = mask,
            !.token_logprobs =
                IF self.has_logprobs
                THEN PySliceFrom(self.token_logprobs,
                                 Len(self.token_logprobs) - SumSeq(mask))
                ELSE <<>>,
            !.prompt_length = 0]

\* ------------------------------------------------------------ the inputs

\* The grouping step gives all results of one prompt the same prompt_id and
\* the same prompt_length; 0 is the prompt_id of a result nobody grouped,
\* whose prompt_length is 0.
PromptIds == {0, 1, 2}

PromptLengthOf(pid) == CASE pid = 0 -> 0 [] pid = 1 -> 3 [] pid = 2 -> 1

\* The tokens of one prompt are the same in all its results.
TokenIdsOf(pid, n) ==
    [i \in 1..n |-> IF i <= PromptLengthOf(pid) THEN 10 * pid + i ELSE 50 + i]

\* The mask the grouping step leaves: no assistant token inside the prompt.
CompletionMask(pid, n) ==
    [i \in 1..n |-> IF i > PromptLengthOf(pid) THEN 1 ELSE 0]

Result(pid, n, mask, has, lp, adv, def) ==
    [prompt_id |-> pid,
     prompt_length |-> PromptLengthOf(pid),
     token_ids |-> TokenIdsOf(pid, n),
     input_pos |-> [i \in 1..n |-> i - 1],
     assistant_mask |-> mask,
     has_logprobs |-> has,
     token_logprobs |-> lp,
     reward |-> adv + 1,
     advantage |-> adv,
     deferred |-> def]

\* A result of c completion tokens, all of them assistant tokens, without
\* token_logprobs.
Plain(pid, c, adv, def) ==
    Result(pid, PromptLengthOf(pid) + c,
           CompletionMask(pid, PromptLengthOf(pid) + c), FALSE, <<>>, adv, def)

\* Results of prompt 1 (three prompt tokens): 4 and 2 completion tokens,
\* the second with another advantage and deferred; and a result nobody
\* groups (prompt_id 0) of two tokens.
PlainResults ==
    {Plain(1, 4, 2, FALSE), Plain(1, 2, -1, TRUE), Plain(0, 2, 2, FALSE)}

\* A result without any assistant token: the prompt alone.
NoAssistantResults == {Plain(1, 0, 2, FALSE)}

\* A result nobody grouped correctly: its only assistant token is inside
\* its prompt.
PromptMaskResults == {Result(1, 4, <<1, 0, 0, 0>>, FALSE, <<>>, 2, FALSE)}

\* Results with token_logprobs: none, fewer than, as many as and more than
\* the assistant tokens, a logprob of 0 and a logprob of None, a gap
\* between the assistant tokens.
LogprobResults ==
    {Result(2, 3, <<0, 1, 1>>, TRUE, lp, 2, FALSE) :
        lp \in {<<-1>>, <<-3, -1, -2>>, <<0, -2>>}}
    \cup {Result(2, 2, <<0, 1>>, TRUE, <<>>, 2, FALSE),
          Result(0, 3, <<1, 0, 1>>, TRUE, <<NoLogprob, -2>>, 2, FALSE)}

\* Results LongExcess tokens longer than a row. The assistant tokens are
\* all tokens after the second (the longer one) or the last token only
\* (the shorter one); a third, of prompt 2, has token_logprobs.
LongResults ==
    {Result(0, LargeSeqLen + LongExcess,
            [i \in 1..(LargeSeqLen + LongExcess) |-> IF i > 2 THEN 1 ELSE 0],
            FALSE, <<>>, 2, FALSE),
     Result(0, SmallSeqLen + LongExcess,
            [i \in 1..(SmallSeqLen + LongExcess) |->
                IF i = SmallSeqLen + LongExcess THEN 1 ELSE 0],
            FALSE, <<>>, 2, FALSE),
     Result(2, SmallSeqLen + LongExcess, CompletionMask(2, SmallSeqLen + LongExcess),
            TRUE, [j \in 1..(SmallSeqLen + LongExcess - 1) |-> 0 - j], -1, TRUE)}

\* What tokenized_results is drawn from.
Results ==
    PlainResults \cup NoAssistantResults \cup PromptMaskResults
        \cup LogprobResults \cup LongResults

\* Results that break the precondition of equal lengths: an assistant_mask
\* shorter than token_ids, an input_pos shorter than token_ids, an
\* assistant_mask longer than token_ids, and the last with token_logprobs
\* for the assistant positions, one of which is past the last token.
MismatchedResults ==
    {Result(0, 3, <<1, 1>>, FALSE, <<>>, 2, FALSE),
     [Plain(0, 2, 2, FALSE) EXCEPT !.input_pos = <<0>>],
     Result(0, 2, <<1, 1, 1>>, FALSE, <<>>, 2, FALSE),
     Result(0, 2, <<0, 1, 1>>, TRUE, <<-1, -2>>, 2, FALSE)}

\* What tokenized_results is drawn from when the caller breaks the
\* precondition: the mismatched results among well-formed ones.
MismatchPool ==
    MismatchedResults
        \cup {Plain(0, 2, 2, FALSE), Plain(1, 0, 2, FALSE),
              Result(0, LargeSeqLen + LongExcess,
                     [i \in 1..(LargeSeqLen + LongExcess) |-> IF i > 2 THEN 1 ELSE 0],
                     FALSE, <<>>, 2, FALSE)}

\* --------------------------------------------------------------- the state

VARIABLES
    seq_len,                \* argument: the row width
    truncate_long_results,  \* argument
    tokenized_results,      \* argument: the results the loop has consumed
    token_ids, group_ids, parent_ids, input_pos, assistant_mask,
    logprobs, advantages, weights, deferred,  \* the nine lists of rows
    draws,                  \* the number of random.randint calls so far
    spans,                  \* where each appended result went (history)
    pc,                     \* "loop", "returned" or "raised"
    exc,                    \* the exception raised ("" while none)
    ret                     \* the returned PackedTensors

\* TaskResultTokenizer.__call__
VARIABLES
    tokenized,              \* the results as _tokenized_result built them
    siblings,               \* its list tokenized_results, changed in place
    prompt_id,              \* its local prompt_id
    prompt_length,          \* its local prompt_length
    tpc                     \* "tokenizing", "grouped" or "idle"

\* packed_tensors_to_dir, packed_tensors_from_dir and PackedDataset
VARIABLES
    dirs,                   \* the directories that exist
    files,                  \* the elements of the file <dir>/<key>.pt
    dataset,                \* the kwargs of the open PackedDataset
    call                    \* the last call: arguments, exception, value

\* TuneRecipe: the configuration and the state of train()
VARIABLES
    total_epochs,                   \* cfg.epochs
    gradient_accumulation_steps,    \* cfg.gradient_accumulation_steps
    max_steps_per_epoch,            \* cfg.max_steps_per_epoch, or None
    save_intermediate_checkpoints,  \* cfg.save_intermediate_checkpoints
    is_rank_zero,                   \* this process is rank 0
    value_head,                     \* an MLP head with an MLPHeadCheckpointer
    dataloader,                     \* len(self._dataloader)
    epochs_run,                     \* self.epochs_run
    curr_epoch,                     \* the loop variable of the epochs
    idx,                            \* the loop variable of the batches
    global_step,                    \* self.global_step
    grads,                          \* the batches whose gradients are in .grad
    optimizer_steps,                \* the batches each optimizer step applied
    checkpoints,                    \* what the checkpointer was handed
    rpc                             \* "epoch", "batches", "done" or "idle"

lists_vars ==
    <<token_ids, group_ids, parent_ids, input_pos, assistant_mask,
      logprobs, advantages, weights, deferred>>

packer_vars ==
    <<seq_len, truncate_long_results, tokenized_results, lists_vars,
      draws, spans, pc, exc, ret>>

tokenizer_vars == <<tokenized, siblings, prompt_id, prompt_length, tpc>>

storage_vars == <<dirs, files, dataset, call>>

recipe_cfg ==
    <<total_epochs, gradient_accumulation_steps, max_steps_per_epoch,
      save_intermediate_checkpoints, is_rank_zero, value_head, dataloader>>

recipe_vars ==
    <<recipe_cfg, epochs_run, curr_epoch, idx, global_step, grads,
      optimizer_steps, checkpoints, rpc>>

\* What a call of the packer leaves alone.
outside_packer == <<tokenizer_vars, storage_vars, recipe_vars>>

\* What a call of the grouping step leaves alone.
outside_tokenizer == <<packer_vars, storage_vars, recipe_vars>>

\* What a call of the storage adapter leaves alone.
outside_storage == <<packer_vars, tokenizer_vars, recipe_vars>>

\* What TuneRecipe.train leaves alone.
outside_recipe == <<packer_vars, tokenizer_vars, storage_vars>>

vars == <<packer_vars, tokenizer_vars, storage_vars, recipe_vars>>

\* The nine lists as one record.
Lists ==
    [token_ids |-> token_ids, group_ids |-> group_ids,
     parent_ids |-> parent_ids, input_pos |-> input_pos,
     assistant_mask |-> assistant_mask, logprobs |-> logprobs,
     advantages |-> advantages, weights |-> weights, deferred |-> deferred]

Channels == DOMAIN Lists

\* token_ids: list[list[int]] = [[]] and so on.
EmptyLists == [k \in Channels |-> << <<>> >>]

NoTensors ==
    [tokens |-> <<>>, group_ids |-> <<>>, parent_ids |-> <<>>,
     input_pos |-> <<>>, assistant_mask |-> <<>>, logprobs |-> <<>>,
     advantages |-> <<>>, weights |-> <<>>, deferred |-> <<>>]

\* ------------------------------------------------------------- the loop

\* [i for i, mask in enumerate(result.assistant_mask) if mask]
AssistantIndices(mask) ==
    LET positions == AsList([i \in 1..Len(mask) |-> i])
        truthy(i) == mask[i] # 0
    IN  SelectSeq(positions, truthy)

\* token_logprob.logprob or float("nan"): None and 0 are falsy.
LogprobOrNaN(v) == IF v = NoLogprob \/ v = 0 THEN NaN ELSE v

\* if result.token_logprobs: (None and the empty list are falsy)
UsesLogprobs(result) == result.has_logprobs /\ Len(result.token_logprobs) > 0

\* LogprobsOf zipping the first entries of token_logprobs, not the last.
LogprobsOfLeading(result) ==
    LET assistant_indices == AssistantIndices(result.assistant_mask)
        zipped == Min(Len(assistant_indices), Len(result.token_logprobs))
    IN  [i \in 1..Len(result.token_ids) |->
            IF UsesLogprobs(result) /\ \E j \in 1..zipped : assistant_indices[j] = i
            THEN LogprobOrNaN(result.token_logprobs[
                     CHOOSE j \in 1..zipped : assistant_indices[j] = i])
            ELSE NaN]

\* What the result adds to logprobs[-1]: NaN everywhere, then the last
\* len(assistant_indices) entries of token_logprobs zipped onto the
\* assistant positions.
LogprobsOf(result) ==
    LET assistant_indices == AssistantIndices(result.assistant_mask)
        tail == PySliceFrom(result.token_logprobs,
                            Len(result.token_logprobs) - Len(assistant_indices))
        zipped == Min(Len(assistant_indices), Len(tail))
    IN  [i \in 1..Len(result.token_ids) |->
            IF UsesLogprobs(result) /\ \E j \in 1..zipped : assistant_indices[j] = i
            THEN LogprobOrNaN(tail[CHOOSE j \in 1..zipped : assistant_indices[j] = i])
            ELSE NaN]

\* GroupIdsOf with the group id on the prompt positions too.
GroupIdsOfCandidateOnly(result, group_id) ==
    Repeat(group_id, Len(result.token_ids))

\* [result.prompt_id] * result.prompt_length
\*     + [group_id] * (len(result.token_ids) - result.prompt_length)
GroupIdsOf(result, group_id) ==
    Repeat(result.prompt_id, result.prompt_length)
        \o Repeat(group_id, Len(result.token_ids) - result.prompt_length)

\* [1 / sum(result.assistant_mask)] * len(result.token_ids)
WeightsOf(result) ==
    Repeat(Rat(1, SumSeq(result.assistant_mask)), Len(result.token_ids))

\* What the (effective) result adds to the last row of each list.
Extension(result, group_id) ==
    [token_ids |-> result.token_ids,
     group_ids |-> GroupIdsOf(result, group_id),
     parent_ids |-> Repeat(result.prompt_id, Len(result.token_ids)),
     input_pos |-> result.input_pos,
     assistant_mask |-> result.assistant_mask,
     logprobs |-> LogprobsOf(result),
     advantages |-> Repeat(result.advantage, Len(result.token_ids)),
     weights |-> WeightsOf(result),
     deferred |-> Repeat(result.deferred, Len(result.token_ids))]

\* result.prompt_id in group_ids[-1]
PromptInRow(ls, result) == result.prompt_id \in Range(Last(ls.group_ids))

\* The length the result is taken to add to the current row.
EffectiveLen(ls, result) ==
    IF PromptInRow(ls, result)
    THEN Len(without_prompt(result).token_ids)
    ELSE Len(result.token_ids)

\* NeedsNewRow with >= for >.
NeedsNewRowWhenFull(ls, result) ==
    Len(Last(ls.token_ids)) + EffectiveLen(ls, result) >= seq_len

\* len(token_ids[-1]) + (...) > seq_len
NeedsNewRow(ls, result) ==
    Len(Last(ls.token_ids)) + EffectiveLen(ls, result) > seq_len

\* token_ids.append([]) and so on.
OpenRow(ls) == [k \in Channels |-> Append(ls[k], <<>>)]

\* The lists once the row for the result is chosen.
WithRow(ls, result) == IF NeedsNewRow(ls, result) THEN OpenRow(ls) ELSE ls

\* Effective without the replacement by result_without_prompt.
EffectiveNeverStripped(ls, result) == result

\* Effective with the test of line 84 made before a new row is opened.
EffectiveBeforeNewRow(ls, result) ==
    IF PromptInRow(ls, result) THEN without_prompt(result) ELSE result

\* if result.prompt_id in group_ids[-1]: result = result_without_prompt
Effective(ls, result) ==
    IF PromptInRow(WithRow(ls, result), result)
    THEN without_prompt(result)
    ELSE result

\* Extend putting the new entries in front of the row.
ExtendInFront(ls, ext) ==
    [k \in Channels |-> [ls[k] EXCEPT ![Len(ls[k])] = ext[k] \o @]]

\* token_ids[-1].extend(...) and so on.
Extend(ls, ext) ==
    [k \in Channels |-> [ls[k] EXCEPT ![Len(ls[k])] = @ \o ext[k]]]

\* ZeroLastAdvantage with the assignment left out.
KeepLastAdvantage(ls) == ls

\* ZeroLastAdvantage writing to the first row, advantages[0][-1] = 0.
ZeroLastAdvantageOfFirstRow(ls) ==
    LET row == ls.advantages[1]
    IN  [ls EXCEPT !.advantages[1] = [row EXCEPT ![Len(row)] = 0]]

\* advantages[-1][-1] = 0
ZeroLastAdvantage(ls) ==
    LET row == Last(ls.advantages)
    IN  [ls EXCEPT !.advantages[Len(ls.advantages)] =
            [row EXCEPT ![Len(row)] = 0]]

\* Truncate with the line for weights forgotten.
TruncateAllButWeights(ls) ==
    [k \in Channels |->
        IF k = "weights" THEN ls[k]
        ELSE [ls[k] EXCEPT ![Len(ls[k])] = PySliceTo(@, seq_len)]]

\* Truncate keeping the last seq_len entries, [-seq_len:] for [:seq_len].
TruncateKeepingTail(ls) ==
    [k \in Channels |->
        [ls[k] EXCEPT ![Len(ls[k])] = PySliceFrom(@, Max(Len(@) - seq_len, 0))]]

\* token_ids[-1] = token_ids[-1][:seq_len] and so on.
Truncate(ls) ==
    [k \in Channels |-> [ls[k] EXCEPT ![Len(ls[k])] = PySliceTo(@, seq_len)]]

\* if truncate_long_results: ...
TruncateIfAsked(ls) == IF truncate_long_results THEN Truncate(ls) ELSE ls

\* The exception the loop body raises for the result, "" when none: the
\* assert on the number of token_logprobs, logprobs[-1][idx + offset] of an
\* assistant position past the last token, advantages[-1][-1] of an empty
\* row, 1 / sum(result.assistant_mask) of a result without assistant token.
ExceptionOf(ls, result) ==
    LET e == Effective(ls, result)
    IN  IF UsesLogprobs(e)
           /\ Len(AssistantIndices(e.assistant_mask)) > Len(e.token_logprobs)
        THEN "AssertionError"
        ELSE IF UsesLogprobs(e)
                /\ \E i \in 1..Len(e.assistant_mask) :
                      e.assistant_mask[i] # 0 /\ i > Len(e.token_ids)
        THEN "IndexError"
        ELSE IF Len(Last(WithRow(ls, result).advantages)) + Len(e.token_ids) = 0
        THEN "IndexError"
        ELSE IF SumSeq(e.assistant_mask) = 0
        THEN "ZeroDivisionError"
        ELSE ""

\* The lists after the loop body for a result that is not skipped.
Appended(ls, result, group_id) ==
    TruncateIfAsked(
        ZeroLastAdvantage(
            Extend(WithRow(ls, result),
                   Extension(Effective(ls, result), group_id))))

\* TooLong with the check left out.
TooLongNeverSkips(result) == FALSE

\* if len(result.token_ids) > seq_len and not truncate_long_results: continue
TooLong(result) == Len(result.token_ids) > seq_len /\ ~truncate_long_results

\* NoAssistant with the check left out.
NoAssistantNeverSkips(result) == FALSE

\* if sum(result.assistant_mask) == 0: continue
NoAssistant(result) == SumSeq(result.assistant_mask) = 0

\* random.randint(-(2**63), 2**63 - 1)
NextGroupId == FirstGroupId + draws

\* Where an appended result went: its row, the length of the row before
\* it, its original, whether its prompt was stripped, and its group id.
SpanOf(ls, result, group_id) ==
    [row |-> Len(WithRow(ls, result).token_ids),
     start |-> Len(Last(WithRow(ls, result).token_ids)),
     result |-> result,
     stripped |-> PromptInRow(WithRow(ls, result), result),
     group_id |-> group_id]

SetLists(ls) ==
    /\ token_ids' = ls.token_ids
    /\ group_ids' = ls.group_ids
    /\ parent_ids' = ls.parent_ids
    /\ input_pos' = ls.input_pos
    /\ assistant_mask' = ls.assistant_mask
    /\ logprobs' = ls.logprobs
    /\ advantages' = ls.advantages
    /\ weights' = ls.weights
    /\ deferred' = ls.deferred

\* No call of TaskResultTokenizer.__call__ is under way.
TokenizerIdle ==
    /\ tokenized = <<>>
    /\ siblings = <<>>
    /\ prompt_id = 0
    /\ prompt_length = 0
    /\ tpc = "idle"

\* The directory tune() keeps the tensors in: f"{output_dir}/tensors".
Dirs == {"tensors"}

\* The dtype of each file, in the order of the dict of
\* packed_tensors_from_dir.
KeyOrder ==
    <<"tokens", "group_ids", "parent_ids", "input_pos", "assistant_mask",
      "logprobs", "advantages", "weights", "deferred">>

DtypeOf ==
    [tokens |-> "long", group_ids |-> "long", parent_ids |-> "long",
     input_pos |-> "long", assistant_mask |-> "bool", logprobs |-> "float32",
     advantages |-> "float32", weights |-> "float32", deferred |-> "bool"]

Keys == DOMAIN DtypeOf

\* No file: a file that does not exist and an empty file are mapped alike.
NoFiles == [d \in Dirs |-> [k \in Keys |-> <<>>]]

NoDataset == [dir |-> "", num_sequences |-> 0, sequence_length |-> 0]

NoCall ==
    [op |-> "", descriptor |-> NoDataset, tensors |-> <<>>, index |-> 0,
     exc |-> "", value |-> <<>>]

\* No call of the storage adapter was made and no directory exists.
StorageIdle ==
    /\ dirs = {}
    /\ files = NoFiles
    /\ dataset = NoDataset
    /\ call = NoCall

\* max_steps_per_epoch = None
NoLimit == -1

\* No TuneRecipe is training.
RecipeIdle ==
    /\ total_epochs = 0
    /\ gradient_accumulation_steps = 1
    /\ max_steps_per_epoch = NoLimit
    /\ save_intermediate_checkpoints = FALSE
    /\ is_rank_zero = TRUE
    /\ value_head = FALSE
    /\ dataloader = 0
    /\ epochs_run = 0
    /\ curr_epoch = 0
    /\ idx = 0
    /\ global_step = 0
    /\ grads = <<>>
    /\ optimizer_steps = <<>>
    /\ checkpoints = <<>>
    /\ rpc = "idle"

Init ==
    /\ TokenizerIdle
    /\ StorageIdle
    /\ RecipeIdle
    /\ seq_len \in SeqLens
    /\ truncate_long_results \in BOOLEAN
    /\ tokenized_results = <<>>
    /\ token_ids = << <<>> >>
    /\ group_ids = << <<>> >>
    /\ parent_ids = << <<>> >>
    /\ input_pos = << <<>> >>
    /\ assistant_mask = << <<>> >>
    /\ logprobs = << <<>> >>
    /\ advantages = << <<>> >>
    /\ weights = << <<>> >>
    /\ deferred = << <<>> >>
    /\ draws = 0
    /\ spans = <<>>
    /\ pc = "loop"
    /\ exc = ""
    /\ ret = NoTensors

\* The loop takes the next result of tokenized_results.
Takes(result) ==
    /\ pc = "loop"
    /\ Len(tokenized_results) < MaxResults
    /\ tokenized_results' = Append(tokenized_results, result)
    /\ UNCHANGED <<seq_len, truncate_long_results, ret, outside_packer>>

\* "Result is too long, skipping"
SkipTooLong(result) ==
    /\ Takes(result)
    /\ TooLong(result)
    /\ UNCHANGED <<lists_vars, draws, spans, pc, exc>>

\* "Result has no unique completion tokens, skipping"
SkipNoAssistant(result) ==
    /\ Takes(result)
    /\ ~TooLong(result)
    /\ NoAssistant(result)
    /\ UNCHANGED <<lists_vars, draws, spans, pc, exc>>

\* The loop body appends the result to the current or to a new row.
AppendResult(result) ==
    /\ Takes(result)
    /\ ~TooLong(result)
    /\ ~NoAssistant(result)
    /\ ExceptionOf(Lists, result) = ""
    /\ SetLists(Appended(Lists, result, NextGroupId))
    /\ draws' = draws + 1
    /\ spans' = Append(spans, SpanOf(Lists, result, NextGroupId))
    /\ UNCHANGED <<pc, exc>>

\* The loop body raises: the call ends without a return value and its lists
\* are gone with its frame.
RaiseInLoop(result) ==
    /\ Takes(result)
    /\ ~TooLong(result)
    /\ ~NoAssistant(result)
    /\ ExceptionOf(Lists, result) # ""
    /\ pc' = "raised"
    /\ exc' = ExceptionOf(Lists, result)
    /\ UNCHANGED <<lists_vars, draws, spans>>

\* ----------------------------------------------------------- the return

\* pad extending every row on the left.
padOnTheLeft(values, pad_value) ==
    AsList([i \in 1..Len(values) |->
               Repeat(pad_value, seq_len - Len(values[i])) \o values[i]])

\* pad(values, pad_value): every row extended to seq_len; a longer row is
\* left as it is.
pad(values, pad_value) ==
    AsList([i \in 1..Len(values) |->
               values[i] \o Repeat(pad_value, seq_len - Len(values[i]))])

\* torch.tensor(..., dtype=torch.bool)
ToBool(rows) ==
    AsList([i \in 1..Len(rows) |->
               AsList([j \in 1..Len(rows[i]) |-> rows[i][j] # 0])])

\* torch.tensor(pad(values, ...)) accepts only rows of one length: pad
\* leaves a row of Max(len(row), seq_len) entries.
Ragged(values) ==
    \E i, j \in 1..Len(values) :
        Max(Len(values[i]), seq_len) # Max(Len(values[j]), seq_len)

\* torch.where(assistant_mask_tensor, weights_tensor, zeros)
MaskedWeights(mask, w) ==
    AsList([i \in 1..Len(w) |->
               AsList([j \in 1..Len(w[i]) |->
                          IF mask[i][j] THEN w[i][j] ELSE RatZero])])

\* tensor[assistant_mask_tensor]: the entries of a 2-D array at the
\* assistant positions, row by row.
AtAssistant(rows, mask) ==
    LET flat == Flatten(rows)
        m == Flatten(mask)
        at == AssistantIndices([i \in 1..Len(m) |-> IF m[i] THEN 1 ELSE 0])
    IN  AsList([k \in 1..Len(at) |-> flat[at[k]]])

\* MeanWeight with .sum() for .mean().
MeanWeightAsSum(selected) == RatSum(selected)

\* selected.mean() of a non-empty selection.
MeanWeight(selected) ==
    LET total == RatSum(selected)
    IN  Rat(total[1], total[2] * Len(selected))

\* weights_tensor[assistant_mask_tensor] /= weights_tensor[
\* assistant_mask_tensor].mean(): without any assistant position the mean
\* is nan and the division touches no element.
Normalized(mask, w) ==
    LET selected == AtAssistant(w, mask)
        mean == MeanWeight(selected)
    IN  IF selected = <<>>
        THEN w
        ELSE AsList([i \in 1..Len(w) |->
                       AsList([j \in 1..Len(w[i]) |->
                                  IF mask[i][j] THEN RatDiv(w[i][j], mean)
                                  ELSE w[i][j]])])

PackedTensors ==
    LET assistant_mask_tensor == ToBool(pad(assistant_mask, 0))
        weights_tensor ==
            Normalized(assistant_mask_tensor,
                       MaskedWeights(assistant_mask_tensor, pad(weights, RatZero)))
    IN  [tokens |-> pad(token_ids, PadTokenId),
         group_ids |-> pad(group_ids, PadId),
         parent_ids |-> pad(parent_ids, PadId),
         input_pos |-> pad(input_pos, 0),
         assistant_mask |-> assistant_mask_tensor,
         logprobs |-> pad(logprobs, NaN),
         advantages |-> pad(advantages, 0),
         weights |-> weights_tensor,
         deferred |-> pad(deferred, FALSE)]

\* torch.where(assistant_mask_tensor, weights_tensor, ...) broadcasts its
\* arguments: rows of different lengths (both at least seq_len > 1) do not
\* broadcast.
ShapesDiffer(a, b) == Max(Len(a[1]), seq_len) # Max(Len(b[1]), seq_len)

\* The exception of the code after the loop, "" when none: torch.tensor
\* raises ValueError for rows of different lengths, torch.where raises
\* RuntimeError for tensors of different shapes.
ExceptionOfReturn ==
    IF Ragged(assistant_mask) \/ Ragged(weights)
    THEN "ValueError"
    ELSE IF ShapesDiffer(assistant_mask, weights)
    THEN "RuntimeError"
    ELSE IF \E k \in Channels : Ragged(Lists[k])
    THEN "ValueError"
    ELSE ""

\* The loop is over: pad, normalise the weights and return.
Return ==
    /\ pc = "loop"
    /\ IF ExceptionOfReturn # ""
       THEN /\ pc' = "raised"
            /\ exc' = ExceptionOfReturn
            /\ ret' = ret
       ELSE /\ pc' = "returned"
            /\ exc' = exc
            /\ ret' = PackedTensors
    /\ UNCHANGED <<seq_len, truncate_long_results, tokenized_results,
                   lists_vars, draws, spans, outside_packer>>

\* ------------------------------------------------- the training mask

\* AttentionMask with parent_ids compared with parent_ids.
AttentionMaskParentToParent(g, p) ==
    [i \in 1..Len(g) |->
        [j \in 1..Len(g) |-> j <= i /\ (g[i] = g[j] \/ p[i] = p[j])]]

\* TuneRecipe.train, for one row of the batch with group_ids g and
\* parent_ids p: mask = causal_mask & (group_mask | parent_mask), where
\* causal_mask is torch.tril(ones), group_mask[i][j] is g[i] == g[j] and
\* parent_mask[i][j] is p[i] == g[j].
AttentionMask(g, p) ==
    [i \in 1..Len(g) |->
        [j \in 1..Len(g) |-> j <= i /\ (g[i] = g[j] \/ p[i] = g[j])]]

Next ==
    \/ \E result \in Results : SkipTooLong(result)
    \/ \E result \in Results : SkipNoAssistant(result)
    \/ \E result \in Results : AppendResult(result)
    \/ \E result \in Results : RaiseInLoop(result)
    \/ Return

Spec == Init /\ [][Next]_vars

\* The packer called with results that break the precondition of equal
\* lengths.
MismatchNext ==
    \/ \E result \in MismatchPool : SkipTooLong(result)
    \/ \E result \in MismatchPool : SkipNoAssistant(result)
    \/ \E result \in MismatchPool : AppendResult(result)
    \/ \E result \in MismatchPool : RaiseInLoop(result)
    \/ Return

MismatchSpec == Init /\ [][MismatchNext]_vars

\* --------------------------------------------------- the grouping step

\* No call of the packer is under way.
PackerIdle ==
    /\ seq_len = SmallSeqLen
    /\ truncate_long_results = TRUE
    /\ tokenized_results = <<>>
    /\ token_ids = << <<>> >>
    /\ group_ids = << <<>> >>
    /\ parent_ids = << <<>> >>
    /\ input_pos = << <<>> >>
    /\ assistant_mask = << <<>> >>
    /\ logprobs = << <<>> >>
    /\ advantages = << <<>> >>
    /\ weights = << <<>> >>
    /\ deferred = << <<>> >>
    /\ draws = 0
    /\ spans = <<>>
    /\ pc = "idle"
    /\ exc = ""
    /\ ret = NoTensors

\* A result as _tokenized_result returns it: prompt_id and prompt_length
\* have their defaults, input_pos is list(range(len(tokens))).
Tokenized(ids, mask) ==
    [token_ids |-> ids,
     input_pos |-> [i \in 1..Len(ids) |-> i - 1],
     assistant_mask |-> mask,
     prompt_id |-> 0,
     prompt_length |-> 0]

\* The completions of one task: all begin with the tokens 1, 2 of the
\* task's messages, the second of which is an assistant token (an earlier
\* assistant turn). Two differ in their last token only, one is the
\* beginning of others, one has no completion token, one has a
\* non-assistant token after its completion began.
Choices ==
    {Tokenized(<<1, 2, 3, 5>>, <<0, 1, 1, 1>>),
     Tokenized(<<1, 2, 3, 6>>, <<0, 1, 1, 1>>),
     Tokenized(<<1, 2, 4>>, <<0, 1, 1>>),
     Tokenized(<<1, 2, 3>>, <<0, 1, 1>>),
     Tokenized(<<1, 2>>, <<0, 1>>),
     Tokenized(<<1, 2, 3, 5, 8, 7>>, <<0, 1, 1, 1, 0, 1>>)}

\* random.randint(-(2**63), 2**63 - 1) of the grouping step.
RandomIds == {FirstGroupId, FirstGroupId + 1}

\* zip(*(r.token_ids for r in tokenized_results)): the columns, as many as
\* the shortest list has entries; none for no list.
Columns(rs) ==
    IF rs = <<>> THEN <<>>
    ELSE LET shortest == CHOOSE n \in {Len(rs[k].token_ids) : k \in 1..Len(rs)} :
                             \A k \in 1..Len(rs) : n <= Len(rs[k].token_ids)
         IN  [c \in 1..shortest |-> [k \in 1..Len(rs) |-> rs[k].token_ids[c]]]

\* CommonPrefixLength counting the columns whose first two entries agree.
CommonPrefixOfFirstTwo(columns) ==
    LET same(x) == Len(x) < 2 \/ x[1] = x[2]
        F[n \in 0..Len(columns)] ==
            IF n = 0 THEN 0
            ELSE IF F[n - 1] = n - 1 /\ same(columns[n]) THEN n ELSE F[n - 1]
    IN  F[Len(columns)]

\* len(list(takewhile(lambda x: len(set(x)) == 1, columns)))
CommonPrefixLength(columns) ==
    LET F[n \in 0..Len(columns)] ==
            IF n = 0 THEN 0
            ELSE IF F[n - 1] = n - 1 /\ Cardinality(Range(columns[n])) = 1
                 THEN n
                 ELSE F[n - 1]
    IN  F[Len(columns)]

\* result.assistant_mask[:prompt_length] = [0] * prompt_length
ZeroPrompt(mask, n) == Repeat(0, n) \o PySliceFrom(mask, n)

\* The for loop of lines 87-91 over one result.
Grouped(result, id, n) ==
    [result EXCEPT !.prompt_id = id,
                   !.prompt_length = n,
                   !.assistant_mask = ZeroPrompt(@, n)]

GroupingInit ==
    /\ PackerIdle
    /\ StorageIdle
    /\ RecipeIdle
    /\ tokenized = <<>>
    /\ siblings = <<>>
    /\ prompt_id = 0
    /\ prompt_length = 0
    /\ tpc = "tokenizing"

\* The list comprehension of lines 68-77 builds the next result, the
\* completions in the order random.shuffle left them in.
Tokenize(choice) ==
    /\ tpc = "tokenizing"
    /\ Len(siblings) < MaxSiblings
    /\ siblings' = Append(siblings, choice)
    /\ tokenized' = Append(tokenized, choice)
    /\ UNCHANGED <<prompt_id, prompt_length, tpc, outside_tokenizer>>

\* Lines 78-92: draw the prompt_id, measure the common prefix, write both
\* into every result and zero the masks over the prefix.
GroupSiblings(id) ==
    /\ tpc = "tokenizing"
    /\ prompt_id' = id
    /\ prompt_length' = CommonPrefixLength(Columns(siblings))
    /\ siblings' = [k \in 1..Len(siblings) |->
                       Grouped(siblings[k], id, prompt_length')]
    /\ tpc' = "grouped"
    /\ UNCHANGED <<tokenized, outside_tokenizer>>

GroupingNext ==
    \/ \E choice \in Choices : Tokenize(choice)
    \/ \E id \in RandomIds : GroupSiblings(id)

GroupingSpec == GroupingInit /\ [][GroupingNext]_vars

\* ------------------------------------------------- the storage adapter

\* A tensor is its shape and its elements in row-major order. Floats are
\* integers and NaN as in the packer; a file holds the elements of one
\* dtype, written and read with that dtype.
Tensor(shape, data) == [shape |-> shape, data |-> data]

KeyNo(key) == CHOOSE i \in 1..Len(KeyOrder) : KeyOrder[i] = key

\* The element i of channel key in the v-th PackedTensors value a caller
\* stores: different in every channel, position and value, of the dtype
\* the packer gives the channel.
ElementOf(key, v, i) ==
    CASE DtypeOf[key] = "long" -> 100 * KeyNo(key) + 10 * v + i
      [] DtypeOf[key] = "bool" -> (KeyNo(key) + v + i) % 2 = 0
      [] DtypeOf[key] = "float32" ->
            IF (v + i) % 3 = 0 THEN NaN ELSE 0 - (100 * KeyNo(key) + 10 * v + i)

\* A PackedTensors value of shape (n, l).
Packed(n, l, v) ==
    [key \in Keys |->
        Tensor(<<n, l>>, AsList([i \in 1..(n * l) |-> ElementOf(key, v, i)]))]

\* The PackedTensors values callers store.
TensorPool ==
    {Packed(n, l, v) : n \in 1..MaxSequences, l \in 1..MaxLength, v \in {0, 1}}

\* The DiskPackedTensors values callers open.
Descriptors ==
    [dir : Dirs, num_sequences : 1..MaxSequences, sequence_length : 1..MaxLength]

\* The indices callers ask a PackedDataset for.
Indices == (0 - MaxSequences - 1)..(MaxSequences + 1)

ZeroOf(dtype) == IF dtype = "bool" THEN FALSE ELSE 0

\* torch.from_file(path, shared=True, size=size, dtype=dtype): the file is
\* created if needed and grows to size elements, zero-filled; a longer
\* file stays as it is.
FileAfterMap(file, size, dtype) ==
    IF Len(file) >= size THEN file
    ELSE file \o Repeat(ZeroOf(dtype), size - Len(file))

\* The files once packed_tensors_from_dir mapped them.
FilesAfterMap(fs, descriptor) ==
    [fs EXCEPT ![descriptor.dir] =
        [key \in Keys |->
            FileAfterMap(@[key],
                         descriptor.num_sequences * descriptor.sequence_length,
                         DtypeOf[key])]]

NotOne(d) == d # 1

\* .view(num_sequences, sequence_length, -1).squeeze(): squeeze() removes
\* every dimension of size 1.
ViewShape(n, l) == SelectSeq(<<n, l, 1>>, NotOne)

\* The tensors packed_tensors_from_dir returns: views of the first
\* num_sequences * sequence_length elements of each file.
Views(fs, descriptor) ==
    [key \in Keys |->
        Tensor(ViewShape(descriptor.num_sequences, descriptor.sequence_length),
               SubSeq(fs[descriptor.dir][key], 1,
                      descriptor.num_sequences * descriptor.sequence_length))]

\* The shape two shapes broadcast to, <<-1>> when they do not broadcast.
Broadcast(a, b) ==
    LET n == Max(Len(a), Len(b))
        x == Repeat(1, n - Len(a)) \o a
        y == Repeat(1, n - Len(b)) \o b
    IN  IF \A i \in 1..n : x[i] = y[i] \/ x[i] = 1 \/ y[i] = 1
        THEN AsList([i \in 1..n |-> Max(x[i], y[i])])
        ELSE <<-1>>

\* tensor.copy_(source) raises RuntimeError unless the source broadcasts to
\* the shape of tensor.
CopyRaises(shape, source) == Broadcast(shape, source.shape) # shape

\* The file once copy_ wrote the source into the view of its beginning.
\* (A source that broadcasts to the view's shape has that shape here,
\* because the view has the source's shape squeezed.)
Overlay(file, source) ==
    source.data \o SubSeq(file, Len(source.data) + 1, Len(file))

\* disk_packed_tensors of packed_tensors_to_dir.
DescriptorOf(tensors, dir) ==
    [dir |-> dir,
     num_sequences |-> tensors.tokens.shape[1],
     sequence_length |-> tensors.tokens.shape[2]]

\* The number of keys the loop of packed_tensors_to_dir copies before
\* copy_ raises; all of them when it does not raise.
Copied(tensors, descriptor) ==
    LET shape == ViewShape(descriptor.num_sequences, descriptor.sequence_length)
        raising == {i \in 1..Len(KeyOrder) : CopyRaises(shape, tensors[KeyOrder[i]])}
    IN  IF raising = {} THEN Len(KeyOrder)
        ELSE (CHOOSE i \in raising : \A j \in raising : i <= j) - 1

\* The files after packed_tensors_to_dir.
FilesAfterWrite(fs, tensors, dir) ==
    LET descriptor == DescriptorOf(tensors, dir)
        mapped == FilesAfterMap(fs, descriptor)
    IN  [mapped EXCEPT ![dir] =
            [key \in Keys |->
                IF KeyNo(key) <= Copied(tensors, descriptor)
                THEN Overlay(@[key], tensors[key])
                ELSE @[key]]]

\* tensor[index]: "" or the exception.
IndexRaises(tensor, index) ==
    IF tensor.shape = <<>> \/ index >= tensor.shape[1] \/ index < 0 - tensor.shape[1]
    THEN "IndexError"
    ELSE ""

RECURSIVE Product(_)
Product(shape) == IF shape = <<>> THEN 1 ELSE shape[1] * Product(Tail(shape))

\* tensor[index] of a tensor of one dimension at least; a negative index
\* counts from the end.
IndexInto(tensor, index) ==
    LET i == IF index < 0 THEN index + tensor.shape[1] ELSE index
        stride == Product(Tail(tensor.shape))
    IN  Tensor(Tail(tensor.shape),
               SubSeq(tensor.data, i * stride + 1, (i + 1) * stride))

StorageInit ==
    /\ PackerIdle
    /\ TokenizerIdle
    /\ RecipeIdle
    /\ dirs \in SUBSET Dirs
    /\ files = NoFiles
    /\ dataset = NoDataset
    /\ call = NoCall

\* packed_tensors_to_dir(tensors, dir)
ToDir(tensors, dir) ==
    LET descriptor == DescriptorOf(tensors, dir)
        raises == Copied(tensors, descriptor) < Len(KeyOrder)
    IN  /\ dirs' = dirs \cup {dir}
        /\ files' = FilesAfterWrite(files, tensors, dir)
        /\ call' = [NoCall EXCEPT !.op = "to_dir",
                                  !.tensors = tensors,
                                  !.descriptor = descriptor,
                                  !.exc = IF raises THEN "RuntimeError" ELSE "",
                                  !.value = IF raises THEN <<>> ELSE descriptor]
        /\ UNCHANGED <<dataset, outside_storage>>

\* packed_tensors_from_dir(**descriptor)
FromDir(descriptor) ==
    /\ dirs' = dirs \cup {descriptor.dir}
    /\ files' = FilesAfterMap(files, descriptor)
    /\ call' = [NoCall EXCEPT !.op = "from_dir",
                              !.descriptor = descriptor,
                              !.value = Views(files', descriptor)]
    /\ UNCHANGED <<dataset, outside_storage>>

\* PackedDataset(**descriptor): its tensors are the views of the files.
OpenDataset(descriptor) ==
    /\ dirs' = dirs \cup {descriptor.dir}
    /\ files' = FilesAfterMap(files, descriptor)
    /\ dataset' = descriptor
    /\ call' = [NoCall EXCEPT !.op = "open", !.descriptor = descriptor]
    /\ UNCHANGED outside_storage

\* PackedDataset.__len__: self.tensors["tokens"].shape[0]
DatasetLen ==
    /\ dataset # NoDataset
    /\ LET shape == Views(files, dataset).tokens.shape
       IN  call' = [NoCall EXCEPT !.op = "len",
                                  !.descriptor = dataset,
                                  !.exc = IF shape = <<>> THEN "IndexError" ELSE "",
                                  !.value = IF shape = <<>> THEN <<>> ELSE shape[1]]
    /\ UNCHANGED <<dirs, files, dataset, outside_storage>>

\* PackedDataset.__getitem__(index)
DatasetGetItem(index) ==
    /\ dataset # NoDataset
    /\ LET tensors == Views(files, dataset)
           raises == \E key \in Keys : IndexRaises(tensors[key], index) # ""
       IN  call' = [NoCall EXCEPT !.op = "getitem",
                                  !.descriptor = dataset,
                                  !.index = index,
                                  !.exc = IF raises THEN "IndexError" ELSE "",
                                  !.value = IF raises THEN <<>>
                                            ELSE [key \in Keys |->
                                                     IndexInto(tensors[key], index)]]
    /\ UNCHANGED <<dirs, files, dataset, outside_storage>>

StorageNext ==
    \/ \E tensors \in TensorPool : \E dir \in Dirs : ToDir(tensors, dir)
    \/ \E descriptor \in Descriptors : FromDir(descriptor)
    \/ \E descriptor \in Descriptors : OpenDataset(descriptor)
    \/ DatasetLen
    \/ \E index \in Indices : DatasetGetItem(index)

StorageSpec == StorageInit /\ [][StorageNext]_vars

\* ------------------------------------------------------ TuneRecipe.train

\* The keys of the checkpoint dict: training.MODEL_KEY, the five keys of
\* the optimizer and recipe state, MLP_HEAD_KEY.
ModelKeys == {"model"}

RecipeStateKeys == {"optimizer", "seed", "epochs_run", "total_epochs", "max_steps_per_epoch"}

HeadKeys == {"mlp_head"}

\* self._steps_per_epoch of _setup_data: the optimizer steps of one epoch.
StepsPerEpoch(batches, accumulation, limit) ==
    LET steps == batches \div accumulation
    IN  IF limit # NoLimit /\ limit < steps THEN limit ELSE steps

\* After setup(): train() zeroes the gradients and enters the loop of the
\* epochs at self.epochs_run, which a resumed run read from its
\* checkpoint.
TrainInit ==
    /\ PackerIdle
    /\ TokenizerIdle
    /\ StorageIdle
    /\ total_epochs \in 1..MaxEpochs
    /\ gradient_accumulation_steps \in 1..MaxAccumulation
    /\ max_steps_per_epoch \in {NoLimit} \cup 1..MaxStepsLimit
    /\ save_intermediate_checkpoints \in BOOLEAN
    /\ is_rank_zero \in BOOLEAN
    /\ value_head \in BOOLEAN
    /\ dataloader \in 0..MaxBatches
    /\ epochs_run \in 0..total_epochs
    /\ curr_epoch = epochs_run
    /\ idx = 0
    /\ global_step = epochs_run * StepsPerEpoch(dataloader, gradient_accumulation_steps,
                                                max_steps_per_epoch)
    /\ grads = <<>>
    /\ optimizer_steps = <<>>
    /\ checkpoints = <<>>
    /\ rpc = "epoch"

\* for curr_epoch in range(self.epochs_run, self.total_epochs): the next
\* epoch begins; enumerate(self._dataloader) starts at 0.
StartEpoch ==
    /\ rpc = "epoch"
    /\ curr_epoch < total_epochs
    /\ idx' = 0
    /\ rpc' = "batches"
    /\ UNCHANGED <<recipe_cfg, epochs_run, curr_epoch, global_step, grads,
                   optimizer_steps, checkpoints, outside_recipe>>

\* The break of lines 1044-1049.
MaxStepsReached ==
    /\ max_steps_per_epoch # NoLimit
    /\ idx \div gradient_accumulation_steps = max_steps_per_epoch

\* StepsNow with the remainder of idx, not of idx + 1.
StepsNowFromIdx == idx % gradient_accumulation_steps = 0

\* if (idx + 1) % self._gradient_accumulation_steps == 0:
StepsNow == (idx + 1) % gradient_accumulation_steps = 0

\* One batch: forward, backward (the gradients add up in .grad), and with
\* every gradient_accumulation_steps-th idx the optimizer steps and the
\* gradients are zeroed.
Batch ==
    /\ rpc = "batches"
    /\ idx < dataloader
    /\ ~MaxStepsReached
    /\ IF StepsNow
       THEN /\ optimizer_steps' =
                  Append(optimizer_steps, Append(grads, <<curr_epoch, idx>>))
            /\ grads' = <<>>
            /\ global_step' = global_step + 1
       ELSE /\ grads' = Append(grads, <<curr_epoch, idx>>)
            /\ UNCHANGED <<optimizer_steps, global_step>>
    /\ idx' = idx + 1
    /\ UNCHANGED <<recipe_cfg, epochs_run, curr_epoch, checkpoints, rpc,
                   outside_recipe>>

\* intermediate_checkpoint = epoch + 1 < self.total_epochs
Intermediate(epoch) == epoch + 1 < total_epochs

\* if intermediate_checkpoint and not self._save_intermediate_checkpoints:
\*     return
SavesNothing(epoch) == Intermediate(epoch) /\ ~save_intermediate_checkpoints

\* The checkpoint dict save_checkpoint hands to the checkpointer.
CheckpointDict(epoch) ==
    [epoch |-> epoch,
     intermediate_checkpoint |-> Intermediate(epoch),
     keys |-> ModelKeys
                 \cup (IF Intermediate(epoch) THEN RecipeStateKeys ELSE {})
                 \cup (IF value_head THEN HeadKeys ELSE {}),
     epochs_run |-> epochs_run + 1]

\* What the checkpointer was handed once save_checkpoint(epoch) is over:
\* only rank 0 calls it.
AfterSaveCheckpoint(epoch) ==
    IF SavesNothing(epoch) \/ ~is_rank_zero
    THEN checkpoints
    ELSE Append(checkpoints, CheckpointDict(epoch))

\* The batches of the epoch are over, by the end of the dataloader or by
\* the break: self.epochs_run += 1; self.save_checkpoint(epoch=curr_epoch).
EndEpoch ==
    /\ rpc = "batches"
    /\ idx >= dataloader \/ MaxStepsReached
    /\ epochs_run' = epochs_run + 1
    /\ checkpoints' = AfterSaveCheckpoint(curr_epoch)
    /\ curr_epoch' = curr_epoch + 1
    /\ rpc' = "epoch"
    /\ UNCHANGED <<recipe_cfg, idx, global_step, grads, optimizer_steps,
                   outside_recipe>>

\* The loop of the epochs is over: self._profiler.stop()
EndTraining ==
    /\ rpc = "epoch"
    /\ curr_epoch >= total_epochs
    /\ rpc' = "done"
    /\ UNCHANGED <<recipe_cfg, epochs_run, curr_epoch, idx, global_step, grads,
                   optimizer_steps, checkpoints, outside_recipe>>

TrainNext ==
    \/ StartEpoch
    \/ Batch
    \/ EndEpoch
    \/ EndTraining

TrainSpec == TrainInit /\ [][TrainNext]_vars

\* ------------------------------------------------------------- the claims

\* The number of tokens of row i (its positions before the padding).
Filled(i) == Len(token_ids[i])

\* The result a span holds as it was appended: stripped or in full.
EffectiveOf(span) ==
    IF span.stripped THEN without_prompt(span.result) ELSE span.result

\* The number of true entries of a 2-D boolean array.
CountTrue(mask) ==
    Len(AssistantIndices([i \in 1..Len(Flatten(mask)) |->
                             IF Flatten(mask)[i] THEN 1 ELSE 0]))

TensorNames == DOMAIN NoTensors

\* C1: after every result the rows of the nine lists have the same length
\* in every list, at most seq_len; the packer returns (torch.tensor never
\* meets rows of different lengths), and the nine returned channels have
\* the same number R >= 1 of rows, each of seq_len entries.
C1_ShapeInvariant ==
    /\ \A k \in Channels :
          /\ Len(Lists[k]) = Len(token_ids)
          /\ \A i \in 1..Len(token_ids) :
                /\ Len(Lists[k][i]) = Filled(i)
                /\ Filled(i) <= seq_len
    /\ exc # "ValueError"
    /\ pc = "returned" =>
          /\ Len(ret.tokens) >= 1
          /\ Len(ret.tokens) = Len(token_ids)
          /\ \A k \in TensorNames :
                /\ Len(ret[k]) = Len(ret.tokens)
                /\ \A i \in 1..Len(ret[k]) : Len(ret[k][i]) = seq_len

\* C1's case: a long result was cut, a second row was opened, and the
\* packer returned.
C1_Witness ==
    /\ pc = "returned"
    /\ truncate_long_results
    /\ Len(ret.tokens) = 3
    /\ \E i \in 1..Len(spans) : Len(spans[i].result.token_ids) > seq_len
    /\ \E i \in 1..Len(spans) : spans[i].stripped

\* C2: in a returned batch with at least one assistant position the sum of
\* the weights over the assistant positions is the number of assistant
\* positions, that is, their mean is 1.
C2_WeightsMeanOne ==
    (pc = "returned" /\ CountTrue(ret.assistant_mask) > 0) =>
        LET selected == AtAssistant(ret.weights, ret.assistant_mask)
        IN  /\ RatSum(selected) = <<CountTrue(ret.assistant_mask), 1>>
            /\ Rat(RatSum(selected)[1], RatSum(selected)[2] * Len(selected))
                  = <<1, 1>>

\* C2's case: a returned batch whose results had different weights, one of
\* them cut by truncation with assistant positions on both sides of the
\* cut.
C2_Witness ==
    /\ pc = "returned"
    /\ truncate_long_results
    /\ Len(spans) = 3
    /\ \E i \in 1..Len(spans) :
          /\ Len(spans[i].result.token_ids) > seq_len
          /\ SumSeq(spans[i].result.assistant_mask)
                > SumSeq(PySliceTo(spans[i].result.assistant_mask, seq_len))
          /\ SumSeq(PySliceTo(spans[i].result.assistant_mask, seq_len)) > 0
    /\ \E i, j \in 1..Len(spans) :
          SumSeq(spans[i].result.assistant_mask)
              # SumSeq(spans[j].result.assistant_mask)

\* Row i ends with a result that truncation cut.
CutRow(i) ==
    \E k \in 1..Len(spans) :
        /\ spans[k].row = i
        /\ spans[k].start + Len(EffectiveOf(spans[k]).token_ids) > seq_len

\* C3 as stated: in every returned row that holds a token, the advantage at
\* the last position before the padding is 0.
C3_LastAdvantageZero ==
    pc = "returned" =>
        \A i \in 1..Len(ret.advantages) :
            Filled(i) > 0 => ret.advantages[i][Filled(i)] = 0

\* C3 amended: in every returned row that holds a token and whose last
\* result was not cut by truncation, the advantage at the last position
\* before the padding is 0; a row that ends with a cut result ends with
\* that result's advantage.
C3_LastAdvantageZeroUnlessCut ==
    pc = "returned" =>
        \A i \in 1..Len(ret.advantages) :
            Filled(i) > 0 =>
                IF CutRow(i)
                THEN \E k \in 1..Len(spans) :
                        /\ spans[k].row = i
                        /\ ret.advantages[i][Filled(i)] = spans[k].result.advantage
                ELSE ret.advantages[i][Filled(i)] = 0

\* C3's case: a returned batch with a row that ends with a cut result and
\* a row that ends with a whole result.
C3_Witness ==
    /\ pc = "returned"
    /\ \E i \in 1..Len(ret.advantages) : Filled(i) > 0 /\ CutRow(i)
    /\ \E i \in 1..Len(ret.advantages) :
          /\ Filled(i) > 0
          /\ ~CutRow(i)
          /\ \E k \in 1..Len(spans) :
                spans[k].row = i /\ spans[k].result.advantage # 0

\* The entries of row `row` of a list of rows at the positions
\* start + 1 .. start + n.
SpanOfRow(rows, row, start, n) == SubSeq(rows[row], start + 1, start + n)

\* C4: when two results of one prompt_id are in the same row, the span of
\* the second holds its token_ids without the first prompt_length tokens,
\* and every group id of that span is the second's own group id, which is
\* not the prompt_id. The same holds of the returned tensors.
C4_SecondSiblingStripped ==
    \A i, j \in 1..Len(spans) :
        (i < j /\ spans[i].row = spans[j].row
               /\ spans[i].result.prompt_id = spans[j].result.prompt_id) =>
            LET r == spans[j].result
                tail == SubSeq(r.token_ids, r.prompt_length + 1, Len(r.token_ids))
                from == spans[j].start
            IN  /\ SpanOfRow(token_ids, spans[j].row, from, Len(tail)) = tail
                /\ from + Len(tail) = (IF j < Len(spans) /\ spans[j + 1].row = spans[j].row
                                       THEN spans[j + 1].start
                                       ELSE Filled(spans[j].row))
                /\ \A k \in (from + 1)..(from + Len(tail)) :
                      /\ group_ids[spans[j].row][k] = spans[j].group_id
                      /\ group_ids[spans[j].row][k] # r.prompt_id
                /\ pc = "returned" =>
                      /\ SpanOfRow(ret.tokens, spans[j].row, from, Len(tail)) = tail
                      /\ \A k \in (from + 1)..(from + Len(tail)) :
                            ret.group_ids[spans[j].row][k] = spans[j].group_id

\* C4's case: two results of a prompt of three tokens in one row of the
\* returned tensors.
C4_Witness ==
    /\ pc = "returned"
    /\ \E i, j \in 1..Len(spans) :
          /\ i < j
          /\ spans[i].row = spans[j].row
          /\ spans[i].result.prompt_id = spans[j].result.prompt_id
          /\ spans[j].result.prompt_length = 3
          /\ Len(spans[j].result.token_ids) > 4

\* What a single result of more than seq_len tokens is expected to leave in
\* the row of each list: the first seq_len entries of what it would add
\* without truncation.
ExpectedClipped(r, group_id) ==
    LET n == Len(r.token_ids)
        whole ==
            [token_ids |-> r.token_ids,
             group_ids |-> [i \in 1..n |->
                               IF i <= r.prompt_length THEN r.prompt_id ELSE group_id],
             parent_ids |-> [i \in 1..n |-> r.prompt_id],
             input_pos |-> r.input_pos,
             assistant_mask |-> r.assistant_mask,
             logprobs |-> LogprobsOf(r),
             advantages |-> [i \in 1..n |-> IF i = n THEN 0 ELSE r.advantage],
             weights |-> [i \in 1..n |-> Rat(1, SumSeq(r.assistant_mask))],
             deferred |-> [i \in 1..n |-> r.deferred]]
    IN  [k \in Channels |-> SubSeq(whole[k], 1, seq_len)]

\* C5: with truncation enabled, once a single result of seq_len + LongExcess
\* tokens is appended, the last row of each of the nine lists is the first
\* seq_len entries of what the result adds without truncation; the returned
\* row has no padding: eight channels are those seq_len entries, and the
\* weights, normalised, are 1 at the assistant positions and 0 elsewhere.
C5_LongResultClipped ==
    (/\ truncate_long_results
     /\ Len(tokenized_results) = 1
     /\ Len(tokenized_results[1].token_ids) = seq_len + LongExcess
     /\ Len(spans) = 1) =>
        LET r == tokenized_results[1]
            want == ExpectedClipped(r, spans[1].group_id)
            row == Len(token_ids)
        IN  /\ \A k \in Channels :
                  /\ Len(Lists[k][row]) = seq_len
                  /\ Lists[k][row] = want[k]
            /\ pc = "returned" =>
                  /\ ret.tokens[row] = want.token_ids
                  /\ ret.group_ids[row] = want.group_ids
                  /\ ret.parent_ids[row] = want.parent_ids
                  /\ ret.input_pos[row] = want.input_pos
                  /\ ret.assistant_mask[row]
                        = [i \in 1..seq_len |-> want.assistant_mask[i] # 0]
                  /\ ret.logprobs[row] = want.logprobs
                  /\ ret.advantages[row] = want.advantages
                  /\ ret.deferred[row] = want.deferred
                  /\ ret.weights[row]
                        = [i \in 1..seq_len |->
                              IF want.assistant_mask[i] # 0 THEN <<1, 1>> ELSE RatZero]

\* C5's case: the single long result, with token_logprobs and a prompt, was
\* cut and the tensors were returned.
C5_Witness ==
    /\ pc = "returned"
    /\ truncate_long_results
    /\ Len(tokenized_results) = 1
    /\ Len(tokenized_results[1].token_ids) = seq_len + LongExcess
    /\ Len(spans) = 1
    /\ tokenized_results[1].has_logprobs
    /\ tokenized_results[1].advantage # 0

\* The loop consumes a result in this step.
Consumes == pc = "loop" /\ Len(tokenized_results') = Len(tokenized_results) + 1

\* The result the loop consumes in this step.
Consumed == tokenized_results'[Len(tokenized_results')]

\* The loop appends a result in this step.
Appends == Consumes /\ Len(spans') = Len(spans) + 1

\* C6: when a result is appended, a new row is opened before it if and
\* only if the length of the current row plus the length the result would
\* add to it (without its prompt if the row holds its prompt_id) is greater
\* than seq_len; otherwise the result goes to the end of the current row.
C6_NewRowStep ==
    Appends =>
        LET r == Consumed
            current == Len(token_ids[Len(token_ids)])
            adds == IF r.prompt_id \in Range(group_ids[Len(group_ids)])
                    THEN Len(r.token_ids) - r.prompt_length
                    ELSE Len(r.token_ids)
        IN  /\ Len(token_ids') = Len(token_ids) + 1 <=> current + adds > seq_len
            /\ Len(token_ids') = Len(token_ids) <=> current + adds <= seq_len
            /\ current + adds <= seq_len =>
                  /\ spans'[Len(spans')].row = Len(token_ids)
                  /\ spans'[Len(spans')].start = current
                  /\ Len(token_ids'[Len(token_ids)]) = current + adds
            /\ current + adds > seq_len =>
                  /\ spans'[Len(spans')].row = Len(token_ids) + 1
                  /\ spans'[Len(spans')].start = 0
                  /\ token_ids'[Len(token_ids)] = token_ids[Len(token_ids)]

\* C6's example: with seq_len = 5, three unrelated results of two tokens
\* give two rows, of four tokens and one pad and of two tokens and three
\* pads.
C6_Example ==
    (/\ pc = "returned"
     /\ seq_len = 5
     /\ tokenized_results = <<Plain(0, 2, 2, FALSE), Plain(0, 2, 2, FALSE),
                              Plain(0, 2, 2, FALSE)>>) =>
        /\ Len(ret.tokens) = 2
        /\ ret.tokens[1] = <<51, 52, 51, 52, PadTokenId>>
        /\ ret.tokens[2] = <<51, 52, PadTokenId, PadTokenId, PadTokenId>>
        /\ <<spans[1].row, spans[2].row, spans[3].row>> = <<1, 1, 2>>

\* C6: every step that appends a result opens a new row if and only if the
\* result would make the current row longer than seq_len, a result that
\* fills the row exactly stays in it, and the example gives two rows of two
\* results and of one.
C6_NewRowIffOverflow == [][C6_NewRowStep]_vars /\ []C6_Example

\* C6's case: the second result of a row fills it exactly, with truncation
\* disabled.
C6_Witness ==
    /\ ~truncate_long_results
    /\ Len(spans) = 3
    /\ spans[2].row = 1
    /\ spans[2].start > 0
    /\ Filled(1) = seq_len
    /\ spans[3].row = 2

\* The state of the loop after the results rs: the nine lists, the number
\* of ids drawn and the spans.
RECURSIVE LoopAfter(_)
LoopAfter(rs) ==
    IF rs = <<>>
    THEN [lists |-> EmptyLists, draws |-> 0, spans |-> <<>>]
    ELSE LET before == LoopAfter(SubSeq(rs, 1, Len(rs) - 1))
             r == rs[Len(rs)]
         IN  IF TooLong(r) \/ NoAssistant(r) \/ ExceptionOf(before.lists, r) # ""
             THEN before
             ELSE [lists |-> Appended(before.lists, r, FirstGroupId + before.draws),
                   draws |-> before.draws + 1,
                   spans |-> Append(before.spans,
                                    SpanOf(before.lists, r, FirstGroupId + before.draws))]

HasAssistant(r) == SumSeq(r.assistant_mask) # 0

\* C7, the step: consuming a result without assistant token raises nothing,
\* opens no row, changes no list and draws no id.
C7_DropStep ==
    (Consumes /\ ~HasAssistant(Consumed)) =>
        /\ pc' = "loop"
        /\ UNCHANGED <<lists_vars, draws, spans, exc, ret>>

\* C7, the rest of the call: the lists, the drawn ids and the spans are
\* those of the same call on the input without its results without
\* assistant token, and so are the tensors returned.
C7_AsIfAbsent ==
    pc # "raised" =>
        LET without == LoopAfter(SelectSeq(tokenized_results, HasAssistant))
        IN  /\ \A k \in Channels : Lists[k] = without.lists[k]
            /\ draws = without.draws
            /\ spans = without.spans

\* C7's example: with seq_len = 10, A of 3 prompt and 4 completion tokens
\* and its sibling B of the 3 prompt tokens alone give one row: A's 7
\* tokens, 3 pads, and 4 assistant positions.
C7_Example ==
    (/\ pc = "returned"
     /\ seq_len = 10
     /\ tokenized_results = <<Plain(1, 4, 2, FALSE), Plain(1, 0, 2, FALSE)>>) =>
        /\ Len(ret.tokens) = 1
        /\ ret.tokens[1] = <<11, 12, 13, 54, 55, 56, 57,
                             PadTokenId, PadTokenId, PadTokenId>>
        /\ CountTrue(ret.assistant_mask) = 4
        /\ ret.assistant_mask[1]
              = <<FALSE, FALSE, FALSE, TRUE, TRUE, TRUE, TRUE, FALSE, FALSE, FALSE>>

\* C7: a result without assistant token is dropped: the step that consumes
\* it changes nothing, the results after it are packed as if it had not
\* been in the input, and the example gives one row of A alone.
C7_NoAssistantDropped ==
    [][C7_DropStep]_vars /\ []C7_AsIfAbsent /\ []C7_Example

\* C7's case: a result without assistant token between two results that
\* were appended, and the tensors returned.
C7_Witness ==
    /\ pc = "returned"
    /\ Len(tokenized_results) = 3
    /\ ~HasAssistant(tokenized_results[2])
    /\ Len(spans) = 2
    /\ spans[2].stripped

\* C8, the step: with truncation disabled, consuming a result of more than
\* seq_len tokens raises nothing, opens no row, changes no list and leaves
\* the loop running.
C8_DropStep ==
    (Consumes /\ ~truncate_long_results /\ Len(Consumed.token_ids) > seq_len) =>
        /\ pc' = "loop"
        /\ UNCHANGED <<lists_vars, draws, spans, exc, ret>>

\* C8, the rows: with truncation disabled every appended result is in its
\* row in full, in tokens, input_pos and assistant_mask: all its tokens, or
\* all its tokens after its prompt when the prompt is already in the row,
\* in which case the tokens of the prompt are in that row before it.
C8_StoredInFull ==
    ~truncate_long_results =>
        \A k \in 1..Len(spans) :
            LET e == EffectiveOf(spans[k])
                r == spans[k].result
                row == spans[k].row
                n == Len(e.token_ids)
            IN  /\ spans[k].start + n <= seq_len
                /\ SpanOfRow(token_ids, row, spans[k].start, n) = e.token_ids
                /\ SpanOfRow(input_pos, row, spans[k].start, n) = e.input_pos
                /\ SpanOfRow(assistant_mask, row, spans[k].start, n) = e.assistant_mask
                /\ n = Len(r.token_ids) - (IF spans[k].stripped THEN r.prompt_length ELSE 0)
                /\ spans[k].stripped =>
                      \E i \in 1..(k - 1) :
                          /\ spans[i].row = row
                          /\ SpanOfRow(token_ids, row, spans[i].start, r.prompt_length)
                                = SubSeq(r.token_ids, 1, r.prompt_length)
                /\ pc = "returned" =>
                      SpanOfRow(ret.tokens, row, spans[k].start, n) = e.token_ids

\* C8: with truncation disabled a result of more than seq_len tokens is
\* dropped without error and without effect, and every appended result is
\* stored in full.
C8_TooLongDropped == [][C8_DropStep]_vars /\ []C8_StoredInFull

\* C8's case: with truncation disabled, a result of more than seq_len
\* tokens was dropped and the next two results were appended, the second
\* without its prompt.
C8_Witness ==
    /\ ~truncate_long_results
    /\ pc = "returned"
    /\ Len(tokenized_results) = 3
    /\ Len(tokenized_results[1].token_ids) > seq_len
    /\ HasAssistant(tokenized_results[1])
    /\ Len(spans) = 2
    /\ spans[2].stripped

\* The number of assistant positions among the first i positions.
AssistantRank(mask, i) == SumSeq([j \in 1..i |-> IF mask[j] # 0 THEN 1 ELSE 0])

\* A logprob as line 107 stores it.
Stored(v) == IF v = NoLogprob \/ v = 0 THEN NaN ELSE v

\* The result as the loop body would append it in this step.
ToAppend == Effective(Lists, Consumed)

\* The loop body is reached for the consumed result.
NotSkipped == Consumes /\ ~TooLong(Consumed) /\ HasAssistant(Consumed)

\* C9 as stated: a result with fewer token_logprobs than assistant
\* positions is appended, its entries on its last assistant positions, NaN
\* on the assistant positions before them and on all other positions.
C9_FewerLogprobsStep ==
    (/\ NotSkipped
     /\ ToAppend.has_logprobs
     /\ Len(ToAppend.token_logprobs) < SumSeq(ToAppend.assistant_mask)) =>
        LET e == ToAppend
            missing == SumSeq(e.assistant_mask) - Len(e.token_logprobs)
            span == spans'[Len(spans')]
        IN  /\ pc' = "loop"
            /\ Len(spans') = Len(spans) + 1
            /\ \A i \in 1..Len(e.token_ids) :
                  span.start + i <= Len(logprobs'[span.row]) =>
                      logprobs'[span.row][span.start + i]
                          = IF e.assistant_mask[i] # 0
                               /\ AssistantRank(e.assistant_mask, i) > missing
                            THEN Stored(e.token_logprobs[
                                     AssistantRank(e.assistant_mask, i) - missing])
                            ELSE NaN

C9_FewerRaisesStep ==
    (/\ NotSkipped
     /\ ToAppend.has_logprobs
     /\ Len(ToAppend.token_logprobs) > 0
     /\ Len(ToAppend.token_logprobs) < SumSeq(ToAppend.assistant_mask)) =>
        /\ pc' = "raised"
        /\ exc' = "AssertionError"
        /\ UNCHANGED ret

\* C9 amended, the rows: an appended result has no token_logprobs entry or
\* at least as many as assistant positions; its i-th assistant position
\* holds the entry that is as far from the end of token_logprobs as the
\* position is from the last assistant position, as line 107 stores it;
\* every other position of the span holds NaN.
C9_LogprobsAligned ==
    \A k \in 1..Len(spans) :
        LET e == EffectiveOf(spans[k])
            lp == e.token_logprobs
            used == e.has_logprobs /\ Len(lp) > 0
            extra == Len(lp) - SumSeq(e.assistant_mask)
            row == spans[k].row
        IN  /\ used => extra >= 0
            /\ \A i \in 1..Len(e.token_ids) :
                  spans[k].start + i <= Filled(row) =>
                      LET want == IF used /\ e.assistant_mask[i] # 0
                                  THEN Stored(lp[extra + AssistantRank(e.assistant_mask, i)])
                                  ELSE NaN
                      IN  /\ logprobs[row][spans[k].start + i] = want
                          /\ pc = "returned" =>
                                ret.logprobs[row][spans[k].start + i] = want

C10_NoReturnWithoutAssistant ==
    pc = "returned" => CountTrue(ret.assistant_mask) > 0

\* The three lists of a result have one length.
SameLengths(r) ==
    /\ Len(r.input_pos) = Len(r.token_ids)
    /\ Len(r.assistant_mask) = Len(r.token_ids)

\* The returned tensors hold span k aligned: each token of the result that
\* was not cut away sits at the row position of its own input_pos and
\* assistant_mask entries.
Aligned(k) ==
    LET e == EffectiveOf(spans[k])
        row == spans[k].row
        start == spans[k].start
    IN  /\ SameLengths(e)
        /\ \A i \in 1..Len(e.token_ids) :
              start + i <= seq_len =>
                  /\ ret.tokens[row][start + i] = e.token_ids[i]
                  /\ ret.input_pos[row][start + i] = e.input_pos[i]
                  /\ ret.assistant_mask[row][start + i] = (e.assistant_mask[i] # 0)

\* C11 as stated: the packer returns no tensors that hold a result whose
\* token_ids, input_pos and assistant_mask have different lengths: every
\* result in the returned tensors has its channels aligned.
C11_NoMisalignedReturn ==
    pc = "returned" => \A k \in 1..Len(spans) : Aligned(k)

\* Position j of a row is inside span k: one of the tokens the result of
\* span k has in the row.
InSpan(k, j) ==
    /\ j > spans[k].start
    /\ j <= spans[k].start + Len(EffectiveOf(spans[k]).token_ids)
    /\ j <= Filled(spans[k].row)

\* Position j of a row is a prompt token of span k: span k holds its
\* result with the prompt, and j is among its first prompt_length tokens.
InPromptOf(k, j) ==
    /\ InSpan(k, j)
    /\ ~spans[k].stripped
    /\ j <= spans[k].start + spans[k].result.prompt_length

\* C15: in the mask TuneRecipe.train builds from a returned row, a token
\* of a span attends to exactly the positions up to its own that are in
\* its own span or are prompt tokens, in the same row, of a result of its
\* prompt_id: never to a completion token of another result nor to a
\* token of another prompt.
C15_AttentionSegregated ==
    pc = "returned" =>
        \A k \in 1..Len(spans) :
            LET row == spans[k].row
                mask == AttentionMask(ret.group_ids[row], ret.parent_ids[row])
            IN  \A i \in 1..seq_len : \A j \in 1..seq_len :
                    InSpan(k, i) =>
                        (mask[i][j] <=>
                            /\ j <= i
                            /\ \/ InSpan(k, j)
                               \/ \E other \in 1..Len(spans) :
                                     /\ spans[other].row = row
                                     /\ spans[other].result.prompt_id
                                           = spans[k].result.prompt_id
                                     /\ InPromptOf(other, j))

\* C15's case: a returned row with a result, its sibling without the
\* prompt and a result of another prompt.
C15_Witness ==
    /\ pc = "returned"
    /\ \E i, j, k \in 1..Len(spans) :
          /\ i < j
          /\ spans[i].row = spans[j].row
          /\ spans[k].row = spans[j].row
          /\ spans[i].result.prompt_id = spans[j].result.prompt_id
          /\ spans[j].stripped
          /\ spans[i].result.prompt_length > 0
          /\ spans[k].result.prompt_id # spans[j].result.prompt_id

\* The sum of the returned weights over the assistant positions of span k.
SpanWeight(k) ==
    LET e == EffectiveOf(spans[k])
        row == spans[k].row
        at == {i \in 1..Len(e.token_ids) :
                  /\ spans[k].start + i <= Filled(row)
                  /\ ret.assistant_mask[row][spans[k].start + i]}
        F[n \in 0..Len(e.token_ids)] ==
            IF n = 0 THEN RatZero
            ELSE IF n \in at
                 THEN RatAdd(F[n - 1], ret.weights[row][spans[k].start + n])
                 ELSE F[n - 1]
    IN  F[Len(e.token_ids)]

\* C17 as stated: in the returned weights, the sum over the assistant
\* positions of a span is the same for every packed result.
C17_EqualTotalWeight ==
    pc = "returned" =>
        \A k, other \in 1..Len(spans) : SpanWeight(k) = SpanWeight(other)

\* C18, the derived result: for every result the loop has consumed,
\* without_prompt gives token_ids, input_pos and assistant_mask without
\* their first prompt_length entries, of one length, prompt_length 0, and
\* the prompt_id, advantage, reward and deferred of the original.
C18_WithoutPrompt ==
    \A k \in 1..Len(tokenized_results) :
        LET r == tokenized_results[k]
            n == r.prompt_length
            w == without_prompt(r)
        IN  /\ w.token_ids = SubSeq(r.token_ids, n + 1, Len(r.token_ids))
            /\ w.input_pos = SubSeq(r.input_pos, n + 1, Len(r.input_pos))
            /\ w.assistant_mask = SubSeq(r.assistant_mask, n + 1, Len(r.assistant_mask))
            /\ Len(w.input_pos) = Len(w.token_ids)
            /\ Len(w.assistant_mask) = Len(w.token_ids)
            /\ Len(w.token_ids) = Len(r.token_ids) - n
            /\ w.prompt_length = 0
            /\ w.prompt_id = r.prompt_id
            /\ w.advantage = r.advantage
            /\ w.reward = r.reward
            /\ w.deferred = r.deferred

\* C18, the originals: a step of the packer leaves every result it has
\* consumed as it was given, takes the next one as it was given, and a
\* span that holds a result without its prompt still names the original
\* with its prompt.
C18_OriginalsStep ==
    /\ \A k \in 1..Len(tokenized_results) :
          tokenized_results'[k] = tokenized_results[k]
    /\ Consumes => Consumed \in Results
    /\ Appends =>
          /\ spans'[Len(spans')].result = Consumed
          /\ spans'[Len(spans')].result.prompt_length = Consumed.prompt_length

\* C18: without_prompt derives a shorter result with prompt_length 0 and
\* the same prompt_id, advantage, reward and deferred, and neither it nor
\* the packer changes the results given.
C18_WithoutPromptFrame == [][C18_OriginalsStep]_vars /\ []C18_WithoutPrompt

\* C18's case: the packer returned after it appended a result of a prompt
\* of three tokens without its prompt.
C18_Witness ==
    /\ pc = "returned"
    /\ \E k \in 1..Len(spans) :
          /\ spans[k].stripped
          /\ spans[k].result.prompt_length = 3
          /\ Len(spans[k].result.token_ids) > 3

\* The first k token ids are the same in all results of rs (each of which
\* has k tokens at least).
SharedPrefix(rs, k) ==
    /\ \A a \in 1..Len(rs) : k <= Len(rs[a].token_ids)
    /\ \A a, b \in 1..Len(rs) : \A c \in 1..k :
          rs[a].token_ids[c] = rs[b].token_ids[c]

\* C16: once the grouping step is over, every sibling has the prompt_id
\* drawn and the same prompt_length; the prompt_length is 0 for no
\* sibling and otherwise the largest k for which the first k token ids are
\* the same in all siblings (so at most the length of the shortest); the
\* assistant_mask of every sibling is 0 on its first prompt_length
\* positions and as it was on the others; the token ids are as they were.
C16_GroupingStep ==
    tpc = "grouped" =>
        /\ Len(siblings) = Len(tokenized)
        /\ prompt_id \in RandomIds
        /\ siblings = <<>> => prompt_length = 0
        /\ SharedPrefix(tokenized, prompt_length)
        /\ siblings # <<>> =>
              \A k \in (prompt_length + 1)..Len(tokenized[1].token_ids) :
                  ~SharedPrefix(tokenized, k)
        /\ \A a \in 1..Len(siblings) :
              /\ siblings[a].prompt_id = prompt_id
              /\ siblings[a].prompt_length = prompt_length
              /\ siblings[a].prompt_length <= Len(siblings[a].token_ids)
              /\ siblings[a].token_ids = tokenized[a].token_ids
              /\ Len(siblings[a].assistant_mask) = Len(tokenized[a].assistant_mask)
              /\ \A i \in 1..Len(siblings[a].assistant_mask) :
                    siblings[a].assistant_mask[i]
                        = IF i <= prompt_length THEN 0
                          ELSE tokenized[a].assistant_mask[i]

\* C16's case: three siblings, the first two with a longer common prefix
\* than all three, an assistant token of the prefix zeroed and an
\* assistant token after it kept.
C16_Witness ==
    /\ tpc = "grouped"
    /\ Len(siblings) = 3
    /\ prompt_length = 2
    /\ SharedPrefix(SubSeq(tokenized, 1, 2), 3)
    /\ \E a \in 1..3 :
          /\ tokenized[a].assistant_mask[2] = 1
          /\ siblings[a].assistant_mask[2] = 0
          /\ siblings[a].assistant_mask[3] = 1

\* The step is a call of packed_tensors_to_dir.
WritesToDir == call'.op = "to_dir"

\* C12 as stated, the step: packed_tensors_to_dir returns a descriptor
\* for every PackedTensors value, and packed_tensors_from_dir with the
\* descriptor it just returned gives, for each of the nine channels, a
\* tensor of the shape and the elements of the one written.
C12_RoundTripStep ==
    /\ WritesToDir => call'.exc = ""
    /\ (/\ call.op = "to_dir"
        /\ call.exc = ""
        /\ call'.op = "from_dir"
        /\ call'.descriptor = call.value) =>
            /\ call'.exc = ""
            /\ \A key \in Keys :
                  /\ call'.value[key].shape = call.tensors[key].shape
                  /\ call'.value[key].data = call.tensors[key].data

\* C12 as stated: for every PackedTensors value of shape (num_sequences,
\* sequence_length), 1 included, writing it and reading it back with the
\* returned descriptor yields tensors of the same shape and elements.
C12_RoundTrip == [][C12_RoundTripStep]_vars

\* C13 as stated: len() of a PackedDataset is the num_sequences it was
\* opened with; the item at an index from 0 to len() - 1 maps each of the
\* nine channels to the sequence_length elements of that row of the
\* channel's file; any other index raises IndexError.
C13_DatasetView ==
    LET n == call.descriptor.num_sequences
        l == call.descriptor.sequence_length
    IN  /\ call.op = "len" => (call.exc = "" /\ call.value = n)
        /\ call.op = "getitem" =>
              IF 0 <= call.index /\ call.index < n
              THEN /\ call.exc = ""
                   /\ \A key \in Keys :
                         /\ call.value[key].shape = <<l>>
                         /\ call.value[key].data
                               = SubSeq(files[call.descriptor.dir][key],
                                        call.index * l + 1, (call.index + 1) * l)
              ELSE call.exc = "IndexError"

\* C14 as stated, the step: packed_tensors_to_dir returns when the
\* directory exists already; writing the tensors the last call wrote, to
\* the same directory, changes no file and returns the same descriptor;
\* and after a write each file begins with the elements just written,
\* whatever was written before.
C14_OverlayStep ==
    WritesToDir =>
        LET d == call'.descriptor
            size == d.num_sequences * d.sequence_length
        IN  /\ d.dir \in dirs => call'.exc = ""
            /\ (call.op = "to_dir" /\ call.tensors = call'.tensors
                                   /\ call.descriptor = d) =>
                    /\ files' = files
                    /\ call'.value = call.value
                    /\ call'.value = d
            /\ \A key \in Keys :
                  SubSeq(files'[d.dir][key], 1, size) = call'.tensors[key].data

\* C14 as stated: packed_tensors_to_dir succeeds on an existing directory,
\* writing twice is writing once, and B written after A leaves B.
C14_IdempotentOverlay == [][C14_OverlayStep]_vars

\* The step ends an epoch of the training loop.
EndsEpoch == rpc = "batches" /\ epochs_run' = epochs_run + 1

\* C19 as stated, the step: at the end of every epoch, rank 0 hands the
\* checkpointer a checkpoint of that epoch with the model weights; it
\* holds the optimizer state and the recipe state only if the epoch is
\* not the last.
C19_EndOfEpochStep ==
    (EndsEpoch /\ is_rank_zero) =>
        /\ Len(checkpoints') = Len(checkpoints) + 1
        /\ LET handed == checkpoints'[Len(checkpoints')]
           IN  /\ handed.epoch = curr_epoch
               /\ "model" \in handed.keys
               /\ (handed.keys \cap RecipeStateKeys # {}) => curr_epoch + 1 < total_epochs

\* C19 as stated: model weights are checkpointed at the end of each epoch
\* and at the end of training, optimizer and recipe state only for
\* non-final epochs.
C19_CheckpointEveryEpoch == [][C19_EndOfEpochStep]_vars

\* The batches of one optimizer step are of one epoch.
OneEpoch(batches) == \A a, b \in 1..Len(batches) : batches[a][1] = batches[b][1]

\* C20 as stated: every optimizer step applied the gradients of exactly
\* gradient_accumulation_steps batches, all of the epoch of the step, and
\* an epoch begins with no gradient left from the epoch before.
C20_ExactAccumulation ==
    /\ \A s \in 1..Len(optimizer_steps) :
          /\ Len(optimizer_steps[s]) = gradient_accumulation_steps
          /\ OneEpoch(optimizer_steps[s])
    /\ (rpc = "batches" /\ idx = 0) => grads = <<>>

\* The positions of span k that are in its row: all of them unless
\* truncation cut the row.
PositionsOf(k) ==
    {p \in 1..Len(EffectiveOf(spans[k]).token_ids) :
        spans[k].start + p <= Filled(spans[k].row)}

\* C21: the span of every appended result holds the result's prompt_id at
\* every position of parent_ids; in group_ids it holds the prompt_id on the
\* first prompt_length positions and the result's own drawn id on the
\* others when the result was appended in full, and the drawn id on every
\* position when its prompt was stripped; no two results share a drawn id.
\* The same holds of the returned tensors.
C21_GroupAndParentIds ==
    \A k \in 1..Len(spans) :
        LET r == spans[k].result
            row == spans[k].row
        IN  /\ \A j \in 1..Len(spans) : j # k => spans[j].group_id # spans[k].group_id
            /\ spans[k].group_id # r.prompt_id
            /\ \A p \in PositionsOf(k) :
                  LET want == IF ~spans[k].stripped /\ p <= r.prompt_length
                              THEN r.prompt_id
                              ELSE spans[k].group_id
                  IN  /\ parent_ids[row][spans[k].start + p] = r.prompt_id
                      /\ group_ids[row][spans[k].start + p] = want
                      /\ pc = "returned" =>
                            /\ ret.parent_ids[row][spans[k].start + p] = r.prompt_id
                            /\ ret.group_ids[row][spans[k].start + p] = want

\* C21's case: a returned row with a result in full, whose prompt has three
\* tokens, and a sibling without its prompt after it.
C21_Witness ==
    /\ pc = "returned"
    /\ \E i, j \in 1..Len(spans) :
          /\ spans[i].row = spans[j].row
          /\ ~spans[i].stripped
          /\ spans[i].result.prompt_length = 3
          /\ spans[j].stripped
          /\ PositionsOf(j) # {}

\* Span k is followed by another span in its row.
Followed(k) == \E j \in 1..Len(spans) : j > k /\ spans[j].row = spans[k].row

\* C22 as stated: every position of a span holds the result's advantage,
\* except the last position of the row before the padding, which holds 0;
\* the last position of a result that another result follows in the row
\* holds the result's advantage.
C22_OnlyRowEndZero ==
    \A k \in 1..Len(spans) :
        \A p \in PositionsOf(k) :
            advantages[spans[k].row][spans[k].start + p]
                = IF spans[k].start + p = Filled(spans[k].row)
                  THEN 0
                  ELSE spans[k].result.advantage

\* C22 amended: every position of a span holds the result's advantage,
\* except the position of the result's last token, which holds 0 for every
\* appended result, followed in its row or not; a result that truncation
\* cut has lost that position. The same holds of the returned tensors.
C22_EveryLastTokenZero ==
    \A k \in 1..Len(spans) :
        LET e == EffectiveOf(spans[k])
            row == spans[k].row
        IN  \A p \in PositionsOf(k) :
                LET want == IF p = Len(e.token_ids) THEN 0 ELSE e.advantage
                IN  /\ advantages[row][spans[k].start + p] = want
                    /\ pc = "returned" =>
                          ret.advantages[row][spans[k].start + p] = want

\* C22's case: a returned row of two results with advantages other than 0,
\* the first with 0 at its last token, and a row that ends with a cut
\* result.
C22_Witness ==
    /\ pc = "returned"
    /\ \E k \in 1..Len(spans) :
          /\ Followed(k)
          /\ spans[k].result.advantage # 0
          /\ spans[k + 1].result.advantage # 0
          /\ ret.advantages[spans[k].row][spans[k + 1].start] = 0
    /\ \E i \in 1..Len(ret.advantages) : Filled(i) > 0 /\ CutRow(i)

\* The padding value of each returned channel.
SentinelOf ==
    [tokens |-> PadTokenId, group_ids |-> PadId, parent_ids |-> PadId,
     input_pos |-> 0, assistant_mask |-> FALSE, logprobs |-> NaN,
     advantages |-> 0, weights |-> RatZero, deferred |-> FALSE]

\* C23: in every returned row every position past the tokens of the row
\* holds the padding value of its channel, and every position before holds
\* what the loop left there: the same value in seven channels, its truth
\* value in assistant_mask, and in weights 0 off the assistant positions
\* and a positive multiple of the loop's weight on them, one factor for the
\* whole batch.
C23_PaddingOnly ==
    pc = "returned" =>
        /\ \A k \in TensorNames : \A i \in 1..Len(ret[k]) :
              \A j \in (Filled(i) + 1)..seq_len : ret[k][i][j] = SentinelOf[k]
        /\ \A i \in 1..Len(token_ids) : \A j \in 1..Filled(i) :
              /\ ret.tokens[i][j] = token_ids[i][j]
              /\ ret.group_ids[i][j] = group_ids[i][j]
              /\ ret.parent_ids[i][j] = parent_ids[i][j]
              /\ ret.input_pos[i][j] = input_pos[i][j]
              /\ ret.assistant_mask[i][j] = (assistant_mask[i][j] # 0)
              /\ ret.logprobs[i][j] = logprobs[i][j]
              /\ ret.advantages[i][j] = advantages[i][j]
              /\ ret.deferred[i][j] = deferred[i][j]
              /\ IF assistant_mask[i][j] # 0
                 THEN ret.weights[i][j][1] > 0
                 ELSE ret.weights[i][j] = RatZero
        /\ \A i, m \in 1..Len(token_ids) :
              \A j \in 1..Filled(i) : \A n \in 1..Filled(m) :
                  (assistant_mask[i][j] # 0 /\ assistant_mask[m][n] # 0) =>
                      RatDiv(ret.weights[i][j], weights[i][j])
                          = RatDiv(ret.weights[m][n], weights[m][n])

\* C23's case: a returned batch of two rows, one of them with tokens and
\* padding, holding a logprob, a deferred result and an advantage other
\* than 0.
C23_Witness ==
    /\ pc = "returned"
    /\ Len(ret.tokens) = 2
    /\ \E i \in 1..2 : Filled(i) > 0 /\ Filled(i) < seq_len
    /\ \E i \in 1..2 : \E j \in 1..Filled(i) :
          ret.logprobs[i][j] # NaN
    /\ \E i \in 1..2 : \E j \in 1..Filled(i) : ret.deferred[i][j]
    /\ \E i \in 1..2 : \E j \in 1..Filled(i) : ret.advantages[i][j] # 0

\* C24 as stated: in the span of every appended result that uses its
\* token_logprobs, an assistant position holds the logprob of its entry,
\* the entries counted from the end as the assistant positions are, and
\* NaN only if the entry's logprob is None; an entry of logprob 0 is held
\* as 0.
C24_LogprobStoredAsIs ==
    \A k \in 1..Len(spans) :
        LET e == EffectiveOf(spans[k])
            lp == e.token_logprobs
            extra == Len(lp) - SumSeq(e.assistant_mask)
            row == spans[k].row
        IN  UsesLogprobs(e) =>
                \A p \in PositionsOf(k) :
                    e.assistant_mask[p] # 0 =>
                        LET v == lp[extra + AssistantRank(e.assistant_mask, p)]
                        IN  logprobs[row][spans[k].start + p]
                                = IF v = NoLogprob THEN NaN ELSE v

\* self._steps_per_epoch of the run.
steps_per_epoch ==
    StepsPerEpoch(dataloader, gradient_accumulation_steps, max_steps_per_epoch)

\* C25, the step: global_step grows by 1 with every optimizer step and
\* with nothing else, and epochs_run grows by 1 at the end of an epoch and
\* with nothing else.
C25_CountersStep ==
    /\ global_step' - global_step = Len(optimizer_steps') - Len(optimizer_steps)
    /\ Len(optimizer_steps') - Len(optimizer_steps) \in {0, 1}
    /\ epochs_run' = IF rpc = "batches" /\ rpc' = "epoch"
                     THEN epochs_run + 1
                     ELSE epochs_run

\* C25, between the epochs: global_step is epochs_run * steps_per_epoch
\* and the next epoch is epochs_run; training is over exactly when
\* epochs_run has reached total_epochs, never beyond it.
C25_CountersBetweenEpochs ==
    /\ rpc \in {"epoch", "done"} =>
          /\ global_step = epochs_run * steps_per_epoch
          /\ curr_epoch = epochs_run
    /\ rpc = "done" => epochs_run = total_epochs
    /\ rpc = "batches" => curr_epoch = epochs_run /\ epochs_run < total_epochs
    /\ epochs_run <= total_epochs

\* C25: global_step grows by 1 per optimizer step and is epochs_run *
\* steps_per_epoch at the end of every epoch, with steps_per_epoch the
\* smaller of len(dataloader) // gradient_accumulation_steps and
\* max_steps_per_epoch; epochs_run grows by 1 per epoch and training stops
\* when it reaches total_epochs, in a resumed run too.
C25_StepAndEpochCounters == [][C25_CountersStep]_vars /\ []C25_CountersBetweenEpochs

\* C25's case: a resumed run is over; its dataloader is not a multiple of
\* gradient_accumulation_steps.
C25_Witness ==
    /\ rpc = "done"
    /\ Len(optimizer_steps) > 0
    /\ Len(optimizer_steps) < global_step
    /\ gradient_accumulation_steps = 2
    /\ dataloader = 3

\* The prompt_id of span k is among the group ids of its row before it.
PromptBefore(k) ==
    \E q \in 1..spans[k].start :
        group_ids[spans[k].row][q] = spans[k].result.prompt_id

\* Where span k ends in its row.
EndOf(k) ==
    IF k < Len(spans) /\ spans[k + 1].row = spans[k].row
    THEN spans[k + 1].start
    ELSE Filled(spans[k].row)

\* C26: an appended result is in its row without its prompt exactly when
\* its prompt_id is among the group ids that the row it went to held
\* before it; so a result without its prompt has a sibling with the prompt
\* earlier in its row, and the first result of a prompt in a row is there
\* in full.
C26_StrippedIffPromptInRow ==
    \A k \in 1..Len(spans) :
        LET r == spans[k].result
            row == spans[k].row
            from == spans[k].start
            want == IF PromptBefore(k) THEN without_prompt(r) ELSE r
        IN  /\ spans[k].stripped = PromptBefore(k)
            /\ EndOf(k) = Min(from + Len(want.token_ids), seq_len)
            /\ SpanOfRow(token_ids, row, from, EndOf(k) - from)
                  = SubSeq(want.token_ids, 1, EndOf(k) - from)
            /\ PromptBefore(k) =>
                  \E j \in 1..(k - 1) :
                      /\ spans[j].row = row
                      /\ spans[j].result.prompt_id = r.prompt_id
                      /\ ~PromptBefore(j)
                      /\ SpanOfRow(token_ids, row, spans[j].start, r.prompt_length)
                            = SubSeq(r.token_ids, 1, r.prompt_length)
            /\ (\A j \in 1..(k - 1) :
                    spans[j].row = row => spans[j].result.prompt_id # r.prompt_id)
                  => ~PromptBefore(k)

\* C26's case: a result went without its prompt after a sibling, and the
\* next sibling opened a new row, where it is in full.
C26_Witness ==
    /\ Len(spans) = 3
    /\ \A k \in 1..3 : spans[k].result.prompt_id = 1
    /\ spans[1].row = spans[2].row
    /\ spans[2].stripped
    /\ spans[3].row = spans[2].row + 1
    /\ ~spans[3].stripped
    /\ pc = "returned"

\* C27 as stated, the step: a result that passes the two skip checks has
\* an assistant position in the form in which the loop body appends it, in
\* full or without its prompt, and the step raises no ZeroDivisionError.
C27_AssistantInAppendedFormStep ==
    NotSkipped =>
        /\ SumSeq(ToAppend.assistant_mask) > 0
        /\ exc' # "ZeroDivisionError"

\* C27 as stated: no result reaches 1 / sum(result.assistant_mask) without
\* an assistant position.
C27_NoDivisionByZero == [][C27_AssistantInAppendedFormStep]_vars

\* C28 as stated: once a result is appended, every returned row holds at
\* least one token; no row is padding only.
C28_NoPaddingOnlyRow ==
    (pc = "returned" /\ Len(spans) > 0) =>
        \A i \in 1..Len(ret.tokens) : Filled(i) > 0

\* C29 as stated: once the grouping step is over, every sibling that had an
\* assistant token before it has one still, whatever the number of
\* siblings and whatever they share.
C29_GroupingKeepsAssistant ==
    tpc = "grouped" =>
        \A a \in 1..Len(siblings) :
            SumSeq(tokenized[a].assistant_mask) > 0 =>
                SumSeq(siblings[a].assistant_mask) > 0

\* The result passes the two skip checks.
Packs(r) == ~TooLong(r) /\ ~NoAssistant(r)

\* The entries of the returned rows before their padding, row after row.
NonPadding(rows) ==
    Flatten([i \in 1..Len(rows) |-> SubSeq(rows[i], 1, Filled(i))])

\* The entries of channel k of the appended results, as they were appended
\* (in full or without the prompt), result after result.
Concatenated(k) ==
    Flatten([s \in 1..Len(spans) |-> EffectiveOf(spans[s])[k]])

\* C30: when no appended result is longer than seq_len, the appended
\* results are the results that pass the skip checks, in input order; the
\* returned tokens before the padding, row after row, are their token_ids
\* (in full or without the prompt) one after another, and so it is with
\* input_pos and assistant_mask; every result is whole within one row.
C30_NothingLostOrReordered ==
    (/\ pc = "returned"
     /\ \A s \in 1..Len(spans) : Len(spans[s].result.token_ids) <= seq_len) =>
        /\ [s \in 1..Len(spans) |-> spans[s].result]
              = SelectSeq(tokenized_results, Packs)
        /\ NonPadding(ret.tokens) = Concatenated("token_ids")
        /\ NonPadding(ret.input_pos) = Concatenated("input_pos")
        /\ NonPadding(ret.assistant_mask)
              = [i \in 1..Len(Concatenated("assistant_mask")) |->
                    Concatenated("assistant_mask")[i] # 0]
        /\ \A s \in 1..Len(spans) :
              LET e == EffectiveOf(spans[s])
                  row == spans[s].row
              IN  /\ spans[s].start + Len(e.token_ids) <= Filled(row)
                  /\ Filled(row) <= seq_len
                  /\ SpanOfRow(ret.tokens, row, spans[s].start, Len(e.token_ids))
                        = e.token_ids
                  /\ s > 1 => spans[s].row >= spans[s - 1].row

\* C30's case: three results returned in two rows, one of them without its
\* prompt, none longer than seq_len, truncation enabled.
C30_Witness ==
    /\ pc = "returned"
    /\ truncate_long_results
    /\ Len(spans) = 3
    /\ Len(ret.tokens) = 2
    /\ \E s \in 1..3 : spans[s].stripped
    /\ \A s \in 1..3 : Len(spans[s].result.token_ids) <= seq_len

====
